---------------------------- MODULE Spec2Model ----------------------------
(***************************************************************************)
(* GpuScheduler (gpu-scheduler/gpu_scheduler/scheduler.py) with its        *)
(* directory layout (dirs.py), GPU inventory (gpu_monitor.py) and process  *)
(* runner (process_runner.py).                                             *)
(*                                                                         *)
(* Units.  Time is counted in ticks of SecPerTick seconds (one hour), so   *)
(* time.time(), created_at, start_time, durations and ledger entries are   *)
(* whole numbers of hours.  Memory is counted in GiB.  Partition and QoS   *)
(* factors are kept in tenths.  A priority score is kept exactly, as the   *)
(* pair [base, den] standing for                                           *)
(*      (base / ScoreDen + FairNum / den) * ScoreUnit   points,            *)
(* and two scores are compared by cross-multiplication (ScoreGE).          *)
(*                                                                         *)
(* Scheduling.  Everything runs on one asyncio event loop; a coroutine is  *)
(* suspended only at asyncio.sleep (run_forever) and at run_in_executor    *)
(* (_wait_and_finalize): the asyncio.Lock of the job store and of the      *)
(* ledger is never held across a suspension, so acquiring it never waits.  *)
(* One action is therefore the code between two suspensions.               *)
(***************************************************************************)
EXTENDS Integers, Sequences, FiniteSets, TLC

\* ---------------------------------------------------------------- bounds
MaxJobs == 2
MaxTime == 1
MaxJobsVirtual == 3
MaxJobsNvml == 3
MaxJobsS3 == 2
MaxJobsLive == 2
MaxJobsFaults == 2
MaxBoots == 2
MaxFiles == 3
MaxJobsStream == 2
MaxJobsSubmit == 2
MaxDaemonJobs == 3
MaxJobsAging == 2
MaxLedgerCalls == 3
MaxJobsHealth == 2
MaxEngineJobs == 3
MaxEngineJobsFaults == 2
MaxRecordings == 2
MaxJobsPass == 3
NumGpusHealth == 2
MaxClockAging == 170
MaxDaemonTime == 4
MaxLogBytes == 3
ChunkSize == 2
MaxCalls == 3
MaxRacers == 2
MaxSeedTotal == 10
NumGpus == 1
GpuTotal == 24

\* ------------------------------------------------------------ input sets
\* what submit_job is called with: <<user_id, vram_required, partition, qos>>
Submissions ==
    { <<"alice", 1, "normal", "standard">>,
      <<"bob", 1, "normal", "hil">>,
      <<"alice", 20, "normal", "standard">>,
      <<"bob", 1, "debug", "admin">> }
ExitCodes == {0, 1, -9}
Temperatures == {60, 85}
UsedChoices == {0, 2}
\* what submit_job accepts: any vram_required, any partition and QoS name
SubmissionsAny ==
    Submissions \cup { <<"alice", -1, "normal", "standard">>,
                       <<"carol", 1, "gpu", "hil">> }
\* the job files external writers add to the daemon's directory:
\* <<user, gpu_count, qos, whether job_name or script has a physics keyword>>
DaemonSubmissions ==
    { <<"alice", 1, "normal", FALSE>>,
      <<"alice", 2, "HIL", FALSE>>,
      <<"bob", 1, "normal", TRUE>>,
      <<"", 0, "", FALSE>> }
\* the jobs that appear in squeue's report: <<user, vram_gb, partition, qos>>
EngineSubmissions ==
    { <<"alice", 2, "normal", "">>,
      <<"bob", 4, "debug", "HIL">> }
\* what safe_rename is called with directly: directories and names ("a.py", "a_1.py");
\* << >> stands for new_name=None
RenameDirs == {"uploads", "to_run"}
RenameNames == { <<"a">>, <<"a", 1>> }
\* scenario S3: two users' jobs alike in everything else, and the seeded usage
SubmissionsS3 ==
    { <<"alice", 1, "normal", "standard">>,
      <<"bob", 1, "normal", "standard">>,
      <<"bob", 1, "normal", "premium">> }
SeedDurations == {36000 \div (60 * 60)}
\* the steps the clock takes between evaluations of a score: about half of max_age_sec
ClockJumps == {84, 85}
\* the arguments of the ledger calls: <<user_id, duration_sec, gpu_count>>
LedgerCharges == {"alice", "bob"} \X {1, 2} \X {1, 2}
LedgerUsers == {"alice", "bob"}

\* ------------------------------------------------------------- constants
None == -1
SecPerTick == 60 * 60
weight_age == 1000
weight_fairshare == 10000
weight_job_size == 500
weight_partition == 1000
weight_qos == 1000
fairshare_decay_norm == (3600 * 10) \div SecPerTick
max_age_sec == (7 * 24 * 3600) \div SecPerTick
max_vram_ref == 80
VirtualGpuTotal == 16
IdleUsedLimit == 1
OverheatC == 85
MaxConcurrent == 2
DaemonTick == 10
WEIGHT_AGE == 1000
WEIGHT_FAIRSHARE == 10000
WEIGHT_JOB_SIZE == 500
WEIGHT_PARTITION == 1000
WEIGHT_QOS == 10000
MAX_AGE_SEC == (7 * 24 * 3600) \div SecPerTick
FAIRSHARE_DECAY_NORM == 10
MAX_VRAM_REF == 80
QuantumSec == 30
W_FAIR == 1
W_AGE == 1
W_PHYS == 2
W_RES == 1
W_HIL == 10
TenthsDen == 10

\* partitions / qos_levels of SlurmConfig, factors in tenths; .get(name, 0.5)
partitions(name) ==
    CASE name = "debug" -> 10
      [] name = "normal" -> 5
      [] name = "batch" -> 1
      [] OTHER -> 5

qos_levels(name) ==
    CASE name = "admin" -> 10
      [] name = "premium" -> 8
      [] name = "standard" -> 5
      [] name = "guest" -> 1
      [] OTHER -> 5

VARIABLES now, nvml, hw, jobs, files, usage, procs, tasks, stop_event, loop, acct,
          logs, streamer, mv, boots, calls, dclock, djobs, dloop, squeue, engine,
          pick

vars == <<now, nvml, hw, jobs, files, usage, procs, tasks, stop_event, loop, acct,
          logs, streamer, mv, boots, calls, dclock, djobs, dloop, squeue, engine,
          pick>>

\* the state of the job manager daemon
daemon == <<dclock, djobs, dloop>>

\* the state of the API process's priority engine, and the jobs squeue reports to it
api == <<squeue, engine>>

\* ------------------------------------------------------------ arithmetic
Min(a, b) == IF a <= b THEN a ELSE b

RECURSIVE Gcd(_, _)
Gcd(a, b) == IF b = 0 THEN a ELSE Gcd(b, a % b)

Lcm(a, b) == (a * b) \div Gcd(a, b)

\* common denominator of the age, size, partition and QoS factors
ScoreDen == Lcm(Lcm(max_age_sec, max_vram_ref), TenthsDen)

\* the points one unit of a stored score stands for
ScoreUnit ==
    Gcd(Gcd(Gcd(weight_age, weight_fairshare), Gcd(weight_job_size, weight_partition)),
        weight_qos)

\* weight_fairshare * 1 / (1 + usage / norm) = FairNum / (norm + usage), scaled
FairNum == (weight_fairshare \div ScoreUnit) * fairshare_decay_norm * ScoreDen

\* a >= b for two stored scores
ScoreGE(a, b) ==
    (a.base - b.base) * a.den * b.den >= FairNum * (a.den - b.den)

ScoreGT(a, b) == ~ScoreGE(b, a)


\* ------------------------------------------------------------- inventory
\* what the temperature probe gives: a reading, or an exception (temp = None)
ProbedTemperatures == Temperatures \cup {None}

\* mutant: every device is reported healthy
is_healthy_always(temperature) == TRUE

\* GpuMetrics.is_healthy as list_gpus sets it
is_healthy(temperature) == ~(temperature /= None /\ temperature >= OverheatC)

\* GpuMonitor.list_gpus: the ordered snapshots; one synthetic device without NVML
list_gpus ==
    IF ~nvml
    THEN << [gpu_id |-> 0, name |-> "virtual-gpu-0", memory_total |-> VirtualGpuTotal,
             memory_used |-> 0, temperature |-> None, is_healthy |-> TRUE] >>
    ELSE [i \in 1..Len(hw) |->
             [gpu_id |-> i - 1, name |-> "nvml-gpu", memory_total |-> GpuTotal,
              memory_used |-> hw[i].used, temperature |-> hw[i].temp,
              is_healthy |-> is_healthy(hw[i].temp)]]

\* ------------------------------------------------------ directory layout
\* A file name is a sequence: <<stem>>, and <<stem, 1>> for "stem_1.py".
\* files maps each existing path <<dir, name>> to the file's content.
Suffixed(new_name, counter) == Append(new_name, counter)

RECURSIVE FreeName(_, _, _, _)
FreeName(fs, dst_dir, new_name, counter) ==
    IF <<dst_dir, Suffixed(new_name, counter)>> \notin DOMAIN fs
    THEN Suffixed(new_name, counter)
    ELSE FreeName(fs, dst_dir, new_name, counter + 1)

\* mutant: the target without the existence check, target = dst_dir / new_name
rename_target_overwrite(fs, dst_dir, new_name) == <<dst_dir, new_name>>

\* the target safe_rename settles on
rename_target(fs, dst_dir, new_name) ==
    IF <<dst_dir, new_name>> \notin DOMAIN fs
    THEN <<dst_dir, new_name>>
    ELSE <<dst_dir, FreeName(fs, dst_dir, new_name, 1)>>

\* src.replace(target): the file system after the move
replace(fs, src, target) ==
    [p \in (DOMAIN fs \ {src}) \cup {target} |-> IF p = target THEN fs[src] ELSE fs[p]]

\* DirLayout.safe_rename; raises (ok = FALSE, nothing moved) when src is missing
safe_rename(fs, src, dst_dir, new_name) ==
    LET target == rename_target(fs, dst_dir, new_name)
    IN  IF src \in DOMAIN fs
        THEN [ok |-> TRUE, path |-> target, files |-> replace(fs, src, target)]
        ELSE [ok |-> FALSE, path |-> src, files |-> fs]

\* ---------------------------------------------------------------- ledger
\* UserUsageTracker.get_usage: self._usage.get(user_id, 0.0)
get_usage(user_id) == IF user_id \in DOMAIN usage THEN usage[user_id] ELSE 0

\* mutant: the entry is replaced by the charge
store_usage_overwrite(user_id, current, duration_sec, gpu_count) ==
    [u \in DOMAIN usage \cup {user_id} |->
        IF u = user_id THEN duration_sec * gpu_count ELSE usage[u]]

\* mutant: the charge ignores gpu_count
store_usage_duration_only(user_id, current, duration_sec, gpu_count) ==
    [u \in DOMAIN usage \cup {user_id} |->
        IF u = user_id THEN current + duration_sec ELSE usage[u]]

\* self._usage[user_id] = current + (duration_sec * gpu_count)
store_usage(user_id, current, duration_sec, gpu_count) ==
    [u \in DOMAIN usage \cup {user_id} |->
        IF u = user_id THEN current + duration_sec * gpu_count ELSE usage[u]]

\* UserUsageTracker.add_usage: the ledger after the charge
add_usage(user_id, duration_sec, gpu_count) ==
    store_usage(user_id, get_usage(user_id), duration_sec, gpu_count)

\* UserUsageTracker.get_total_usage
RECURSIVE SumUsage(_)
SumUsage(us) ==
    IF us = {} THEN 0 ELSE LET u == CHOOSE x \in us : TRUE IN usage[u] + SumUsage(us \ {u})

get_total_usage == SumUsage(DOMAIN usage)

\* -------------------------------------------------------------- priority
\* mutant: the waiting time with its sign reversed
time_waiting_reversed(job) == job.created_at - now

\* Job.time_waiting
time_waiting(job) == now - job.created_at

\* mutant: the score without the fair-share decay, fs_factor = 1.0 for every user
_calculate_slurm_priority_no_fairshare(job, user_usage) ==
    [base |-> (weight_age \div ScoreUnit) * Min(time_waiting(job), max_age_sec)
                  * (ScoreDen \div max_age_sec)
            + (weight_job_size \div ScoreUnit) * Min(job.vram_required, max_vram_ref)
                  * (ScoreDen \div max_vram_ref)
            + (weight_partition \div ScoreUnit) * partitions(job.partition)
                  * (ScoreDen \div TenthsDen)
            + (weight_qos \div ScoreUnit) * qos_levels(job.qos) * (ScoreDen \div TenthsDen),
     den  |-> fairshare_decay_norm]

\* the factors of _calculate_slurm_priority, each as the numerator of its fraction:
\* age_factor over max_age_sec, size_factor over max_vram_ref, part_factor and
\* qos_factor over TenthsDen
age_factor(job) == Min(time_waiting(job), max_age_sec)
size_factor(job) == Min(job.vram_required, max_vram_ref)
part_factor(job) == partitions(job.partition)
qos_factor(job) == qos_levels(job.qos)

\* GpuScheduler._calculate_slurm_priority, against the ledger value user_usage
_calculate_slurm_priority(job, user_usage) ==
    LET age      == age_factor(job)
        size     == size_factor(job)
        part     == part_factor(job)
        qos      == qos_factor(job)
    IN  [base |-> (weight_age \div ScoreUnit) * age * (ScoreDen \div max_age_sec)
                + (weight_job_size \div ScoreUnit) * size * (ScoreDen \div max_vram_ref)
                + (weight_partition \div ScoreUnit) * part * (ScoreDen \div TenthsDen)
                + (weight_qos \div ScoreUnit) * qos * (ScoreDen \div TenthsDen),
         den  |-> fairshare_decay_norm + user_usage]

\* priority_score: float = 0.0
ZeroScore == [base |-> 0, den |-> 1]

\* ------------------------------------------------------------- job store
JobIds == 1..Len(jobs)

Queued == {i \in JobIds : jobs[i].status = "QUEUED"}
Running == {i \in JobIds : jobs[i].status = "RUNNING"}
Terminal == {i \in JobIds : jobs[i].status \in {"COMPLETED", "FAILED"}}

\* list comprehension over list_jobs(): the QUEUED jobs in store order
RECURSIVE CandidatesFrom(_)
CandidatesFrom(i) ==
    IF i > Len(jobs) THEN << >>
    ELSE IF jobs[i].status = "QUEUED" THEN <<i>> \o CandidatesFrom(i + 1)
    ELSE CandidatesFrom(i + 1)

\* list.sort(key=priority_score, reverse=True): stable, equal scores keep their order
RECURSIVE InsertDesc(_, _, _)
InsertDesc(sorted, x, score) ==
    IF sorted = << >> THEN <<x>>
    ELSE IF ScoreGE(score[Head(sorted)], score[x])
         THEN <<Head(sorted)>> \o InsertDesc(Tail(sorted), x, score)
         ELSE <<x>> \o sorted

RECURSIVE SortDesc(_, _)
SortDesc(seq, score) ==
    IF seq = << >> THEN << >>
    ELSE InsertDesc(SortDesc(SubSeq(seq, 1, Len(seq) - 1), score), seq[Len(seq)], score)

\* mutant: a score is computed once and kept by the later passes
Rescored_once ==
    [i \in JobIds |->
        IF jobs[i].status = "QUEUED" /\ jobs[i].priority_score = ZeroScore
        THEN _calculate_slurm_priority(jobs[i], get_usage(jobs[i].user_id))
        ELSE jobs[i].priority_score]

\* the scores _pick_next_job stores: every QUEUED job rescored from now and the ledger
Rescored ==
    [i \in JobIds |->
        IF jobs[i].status = "QUEUED"
        THEN _calculate_slurm_priority(jobs[i], get_usage(jobs[i].user_id))
        ELSE jobs[i].priority_score]

\* the candidates of a pass, ranked
Ranked == SortDesc(CandidatesFrom(1), Rescored)

\* mutant: the sort without reverse=True, the lowest score first
_pick_next_job_lowest == IF Ranked = << >> THEN 0 ELSE Ranked[Len(Ranked)]

\* GpuScheduler._pick_next_job: candidates[0], or 0 for no candidate
_pick_next_job == IF Ranked = << >> THEN 0 ELSE Ranked[1]

\* GpuScheduler._find_available_gpu: index into the snapshot list, from m on
RECURSIVE FindFrom(_, _, _)
FindFrom(metrics, m, vram_required) ==
    IF m > Len(metrics) THEN None
    ELSE IF ~metrics[m].is_healthy THEN FindFrom(metrics, m + 1, vram_required)
    ELSE IF metrics[m].name = "virtual-gpu-0" /\ Cardinality(Running) > 0
         THEN FindFrom(metrics, m + 1, vram_required)
    ELSE IF metrics[m].memory_total - metrics[m].memory_used >= vram_required
            /\ metrics[m].memory_used < IdleUsedLimit
         THEN metrics[m].gpu_id
    ELSE FindFrom(metrics, m + 1, vram_required)

\* mutant: the check without the virtual-gpu-0 branch, memory figures only
RECURSIVE FindFromMemoryOnly(_, _, _)
FindFromMemoryOnly(metrics, m, vram_required) ==
    IF m > Len(metrics) THEN None
    ELSE IF ~metrics[m].is_healthy THEN FindFromMemoryOnly(metrics, m + 1, vram_required)
    ELSE IF metrics[m].memory_total - metrics[m].memory_used >= vram_required
            /\ metrics[m].memory_used < IdleUsedLimit
         THEN metrics[m].gpu_id
    ELSE FindFromMemoryOnly(metrics, m + 1, vram_required)

_find_available_gpu_memory_only(vram_required) ==
    FindFromMemoryOnly(list_gpus, 1, vram_required)

_find_available_gpu(vram_required) == FindFrom(list_gpus, 1, vram_required)

\* ----------------------------------------------------------------- state
\* now         time.time(), in ticks
\* nvml        GpuMonitor._nvml_available
\* hw          what NVML reports for each device: memory used and temperature
\* jobs        InMemoryJobStore._jobs, in insertion order; a job's id is its index
\* files       the scripts on disk: path -> content
\* usage       UserUsageTracker._usage
\* procs       the child processes: job id -> [alive, rc]
\* tasks       the pending _wait_and_finalize tasks: job id -> [start_time]
\* stop_event  GpuScheduler._stop_event
\* loop        where the run_forever task is: "check" (at the while condition),
\*             "sleep" (in asyncio.sleep), "exited" or "crashed" (an exception left it)
\* acct        per admitted job: the ledger entry of its user at admission, and when
\*             the job started and ended (history, read by no action)
\* logs        out/<job_id>.log: the number of bytes written to it
\* streamer    one log_streamer generator: its job, the bytes it has yielded, and
\*             where it is ("none": not created)
\* mv          the safe_rename calls made directly on the layout: caller -> the call's
\*             arguments, local variables and position
\* boots       how many GpuScheduler objects have been constructed on this root
\* squeue      the jobs `squeue --format=json` reports, as the API process reads them
\* engine      the priority_engine module in the API process: usage_tracker.usage_data,
\*             processed_job_ids, the list the last get_jobs call returned, and how
\*             often record_usage was called for each job id (history, read by no
\*             action)
\* pick        the _pick_next_job call under way, when it is followed one candidate at
\*             a time (loop = "scoring"): its candidates and how many it has scored
\* calls       the add_usage / get_usage calls made on the ledger one step at a time:
\*             caller -> the call's arguments, local variables and position
\* dclock      datetime.utcnow() of the job manager daemon, in ticks of DaemonTick s
\* djobs       the daemon's jobs directory: one record per job file
\* dloop       where the daemon's main loop is: "run" (before process_jobs) or "sleep"
\* no log_streamer has been created
NoStreamer == [job |-> 0, pos |-> 0, pc |-> "none"]

\* nvmlDeviceGetCount() = count devices, idle and cool
Devices(count) == [i \in 1..count |-> [used |-> 0, temp |-> 60]]

\* no _pick_next_job call is under way
NoPick == [candidates |-> << >>, k |-> 0]

InitSchedulerOn(devices) ==
    /\ now = 0
    /\ pick = NoPick
    /\ nvml \in BOOLEAN
    /\ hw = devices
    /\ jobs = << >>
    /\ files = << >>
    /\ usage = << >>
    /\ procs = << >>
    /\ tasks = << >>
    /\ stop_event = FALSE
    /\ loop = "check"
    /\ acct = << >>
    /\ logs = << >>
    /\ streamer = NoStreamer
    /\ mv = << >>
    /\ boots = 1
    /\ calls = << >>

\* priority_engine at import: usage.json absent, processed_job_ids = set(); no
\* get_jobs call made yet; squeue reports no job
InitEngine ==
    /\ squeue = << >>
    /\ engine = [usage_data |-> << >>, processed_job_ids |-> {}, result |-> << >>,
                 recorded |-> << >>]

InitScheduler == InitSchedulerOn(Devices(NumGpus)) /\ InitEngine

\* the scheduler after construction; the daemon about to start on an empty directory
Init ==
    /\ InitScheduler
    /\ dclock = 0
    /\ djobs = << >>
    /\ dloop = "run"

\* a function on 1..n as a sequence
AsSeq(f) == << >> \o f

\* a function with one more point
Put(f, k, v) == [x \in DOMAIN f \cup {k} |-> IF x = k THEN v ELSE f[x]]

\* mutant: the entry stays: a supervisor that has finalized its job runs again
Drop_nothing(f, k) == f

\* a function with one point fewer
Drop(f, k) == [x \in DOMAIN f \ {k} |-> f[x]]

\* --------------------------------------------------------------- actions
\* GpuScheduler.submit_job; the caller has written the upload src_script
submit_job(user_id, vram_required, partition, qos) ==
    /\ LET job_id == Len(jobs) + 1
           src == <<"uploads", <<job_id>>>>
           r == safe_rename(Put(files, src, job_id), src, "to_run", <<job_id>>)
       IN  /\ r.ok
           /\ files' = r.files
           /\ jobs' = Append(jobs,
                 [id |-> job_id, script_path |-> r.path, user_id |-> user_id,
                  vram_required |-> vram_required, created_at |-> now,
                  partition |-> partition, qos |-> qos, status |-> "QUEUED",
                  assigned_gpu |-> None, pid |-> None, priority_score |-> ZeroScore])
    /\ UNCHANGED <<now, nvml, hw, usage, procs, tasks, stop_event, loop, acct,
                 logs, streamer, mv, boots, calls, daemon, api, pick>>

\* _launch_job once a GPU is found (the code after the early return): move the
\* script, mark the job, start the child, create the supervisor task;
\* spawn_ok: whether ProcessRunner.start_process returns a process or raises
admit(job_id, scored, gpu_id, spawn_ok) ==
    LET job == scored[job_id]
        r == safe_rename(files, job.script_path, "running", job.script_path[2])
        moved == [job EXCEPT !.script_path = r.path, !.status = "RUNNING",
                             !.assigned_gpu = gpu_id]
    IN  IF ~r.ok
        THEN /\ jobs' = scored
             /\ loop' = "crashed"
             /\ UNCHANGED <<files, procs, tasks, acct, logs>>
        ELSE IF ~spawn_ok
        THEN /\ jobs' = [scored EXCEPT ![job_id] = moved]
             /\ files' = r.files
             /\ logs' = Put(logs, job_id, 0)
             /\ loop' = "crashed"
             /\ UNCHANGED <<procs, tasks, acct>>
        ELSE /\ jobs' = [scored EXCEPT ![job_id] = [moved EXCEPT !.pid = job_id]]
             /\ files' = r.files
             /\ logs' = Put(logs, job_id, 0)
             /\ procs' = Put(procs, job_id, [alive |-> TRUE, rc |-> 0])
             /\ tasks' = Put(tasks, job_id, [start_time |-> now])
             /\ acct' = Put(acct, job_id,
                            [before |-> get_usage(job.user_id), start |-> now, end |-> None])
             /\ loop' = "sleep"

\* mutant: _launch_job without its early return on gpu_id is None
_launch_job_unchecked(job_id, scored, spawn_ok) ==
    admit(job_id, scored, _find_available_gpu(scored[job_id].vram_required), spawn_ok)

\* GpuScheduler._launch_job(job), after _pick_next_job stored the scores in `scored`
_launch_job(job_id, scored, spawn_ok) ==
    LET gpu_id == _find_available_gpu(scored[job_id].vram_required)
    IN  IF gpu_id = None
        THEN /\ jobs' = scored
             /\ loop' = "sleep"
             /\ UNCHANGED <<files, procs, tasks, acct, logs>>
        ELSE admit(job_id, scored, gpu_id, spawn_ok)

\* mutant: a loop that never sees the stop event, `while True`
is_set_never == FALSE

\* self._stop_event.is_set()
is_set == stop_event

\* one iteration of run_forever with the stop event clear: pick, launch, then sleep
run_forever(spawn_ok) ==
    /\ loop = "check"
    /\ ~is_set
    /\ LET next_job == _pick_next_job
       IN  IF next_job = 0
           THEN /\ loop' = "sleep"
                /\ UNCHANGED <<jobs, files, procs, tasks, acct, logs>>
           ELSE _launch_job(next_job,
                           AsSeq([i \in JobIds |->
                                     [jobs[i] EXCEPT !.priority_score = Rescored[i]]]),
                           spawn_ok)
    /\ UNCHANGED <<now, nvml, hw, usage, stop_event, streamer, mv, boots, calls, daemon, api, pick>>

\* run_forever leaving its loop: the stop event is set
run_forever_exit ==
    /\ loop = "check"
    /\ is_set
    /\ loop' = "exited"
    /\ UNCHANGED <<now, nvml, hw, jobs, files, usage, procs, tasks, stop_event, acct,
                 logs, streamer, mv, boots, calls, daemon, api, pick>>

\* asyncio.sleep(self._poll_interval) returns
run_forever_wake ==
    /\ loop = "sleep"
    /\ loop' = "check"
    /\ UNCHANGED <<now, nvml, hw, jobs, files, usage, procs, tasks, stop_event, acct,
                 logs, streamer, mv, boots, calls, daemon, api, pick>>

\* mutant: a failed job is put back in the queue
classify_requeue(return_code) ==
    IF return_code = 0
    THEN [status |-> "COMPLETED", dir |-> "complete"]
    ELSE [status |-> "QUEUED", dir |-> "to_run"]

\* mutant: the failed script is moved to complete/ as well
classify_one_dir(return_code) ==
    IF return_code = 0
    THEN [status |-> "COMPLETED", dir |-> "complete"]
    ELSE [status |-> "FAILED", dir |-> "complete"]

\* mutant: return_code <= 0, a child killed by a signal counts as a success
classify_signal_ok(return_code) ==
    IF return_code <= 0
    THEN [status |-> "COMPLETED", dir |-> "complete"]
    ELSE [status |-> "FAILED", dir |-> "fail"]

\* _wait_and_finalize's branch on the return code: the status and the directory
classify(return_code) ==
    IF return_code = 0
    THEN [status |-> "COMPLETED", dir |-> "complete"]
    ELSE [status |-> "FAILED", dir |-> "fail"]

\* mutant: only a successful run is charged
charge_success_only(job, duration, return_code) ==
    IF return_code = 0 THEN add_usage(job.user_id, duration, 1) ELSE usage

\* _wait_and_finalize's charge: the ledger after add_usage(job.user_id, duration)
charge(job, duration, return_code) == add_usage(job.user_id, duration, 1)

\* GpuScheduler._wait_and_finalize(job), resumed once proc.wait has returned
_wait_and_finalize(job_id) ==
    /\ job_id \in DOMAIN tasks
    /\ ~procs[job_id].alive
    /\ LET job == jobs[job_id]
           return_code == procs[job_id].rc
           duration == now - tasks[job_id].start_time
           to == classify(return_code)
           r == safe_rename(files, job.script_path, to.dir, job.script_path[2])
       IN  /\ usage' = charge(job, duration, return_code)
           /\ acct' = Put(acct, job_id, [acct[job_id] EXCEPT !.end = now])
           /\ IF r.ok
              THEN /\ files' = r.files
                   /\ jobs' = [jobs EXCEPT ![job_id].status = to.status]
              ELSE UNCHANGED <<files, jobs>>
    /\ tasks' = Drop(tasks, job_id)
    /\ procs' = Drop(procs, job_id)
    /\ UNCHANGED <<now, nvml, hw, stop_event, loop,
                 logs, streamer, mv, boots, calls, daemon, api, pick>>

\* GpuScheduler.stop
stop ==
    /\ ~stop_event
    /\ stop_event' = TRUE
    /\ UNCHANGED <<now, nvml, hw, jobs, files, usage, procs, tasks, loop, acct,
                 logs, streamer, mv, boots, calls, daemon, api, pick>>

\* the application's shutdown hook: scheduler.stop(), then scheduler_task.cancel();
\* the cancelled run_forever task, suspended in its sleep or not yet resumed, ends
shutdown_event ==
    /\ ~stop_event \/ loop \in {"check", "sleep"}
    /\ stop_event' = TRUE
    /\ loop' = IF loop \in {"check", "sleep"} THEN "exited" ELSE loop
    /\ UNCHANGED <<now, nvml, hw, jobs, files, usage, procs, tasks, acct,
                   logs, streamer, mv, boots, calls, daemon, api, pick>>

\* environment: a child process ends with a return code (negative: killed by a signal)
child_exit(job_id, rc) ==
    /\ job_id \in DOMAIN procs
    /\ procs[job_id].alive
    /\ procs' = Put(procs, job_id, [alive |-> FALSE, rc |-> rc])
    /\ UNCHANGED <<now, nvml, hw, jobs, files, usage, tasks, stop_event, loop, acct,
                 logs, streamer, mv, boots, calls, daemon, api, pick>>

\* environment: the clock advances
tick ==
    /\ now < MaxTime
    /\ now' = now + 1
    /\ UNCHANGED <<nvml, hw, jobs, files, usage, procs, tasks, stop_event, loop, acct,
                 logs, streamer, mv, boots, calls, daemon, api, pick>>

\* environment: NVML reports other figures for a device
gpu_change(i, used, temp) ==
    /\ nvml
    /\ hw[i] /= [used |-> used, temp |-> temp]
    /\ hw' = Put(hw, i, [used |-> used, temp |-> temp])
    /\ UNCHANGED <<now, nvml, jobs, files, usage, procs, tasks, stop_event, loop, acct,
                 logs, streamer, mv, boots, calls, daemon, api, pick>>

\* every operation, with the GPUs NVML reports or the synthetic device
Next ==
    \/ \E s \in Submissions : Len(jobs) < MaxJobs /\ submit_job(s[1], s[2], s[3], s[4])
    \/ \E spawn_ok \in BOOLEAN : run_forever(spawn_ok)
    \/ run_forever_exit
    \/ run_forever_wake
    \/ \E j \in DOMAIN tasks : _wait_and_finalize(j)
    \/ stop
    \/ shutdown_event
    \/ \E j \in DOMAIN procs, rc \in ExitCodes : child_exit(j, rc)
    \/ tick
    \/ \E i \in 1..NumGpus, used \in UsedChoices, temp \in Temperatures : gpu_change(i, used, temp)

Spec == Init /\ [][Next]_vars

\* a host without NVML: the synthetic device only, every child starts, nobody stops the loop
InitVirtual == Init /\ ~nvml

NextVirtual ==
    \/ \E s \in Submissions : Len(jobs) < MaxJobsVirtual /\ submit_job(s[1], s[2], s[3], s[4])
    \/ run_forever(TRUE)
    \/ run_forever_wake
    \/ \E j \in DOMAIN tasks : _wait_and_finalize(j)
    \/ \E j \in DOMAIN procs, rc \in ExitCodes : child_exit(j, rc)
    \/ tick

SpecVirtual == InitVirtual /\ [][NextVirtual]_vars

\* a host with NVML, at one instant: every child starts, nobody stops the loop
InitNvml == Init /\ nvml

NextNvml ==
    \/ \E s \in Submissions : Len(jobs) < MaxJobsNvml /\ submit_job(s[1], s[2], s[3], s[4])
    \/ run_forever(TRUE)
    \/ run_forever_wake
    \/ \E j \in DOMAIN tasks : _wait_and_finalize(j)
    \/ \E j \in DOMAIN procs, rc \in ExitCodes : child_exit(j, rc)
    \/ \E i \in 1..NumGpus, used \in UsedChoices, temp \in Temperatures : gpu_change(i, used, temp)

SpecNvml == InitNvml /\ [][NextNvml]_vars

\* a script is written under a name not in use, as the upload handler writes temp_path
write_file(dir, name, content) ==
    /\ <<dir, name>> \notin DOMAIN files
    /\ \A p \in DOMAIN files : files[p] /= content
    /\ files' = Put(files, <<dir, name>>, content)
    /\ UNCHANGED <<now, nvml, hw, jobs, usage, procs, tasks, stop_event, loop, acct,
                   logs, streamer, mv, boots, calls, daemon, api, pick>>

\* DirLayout.safe_rename(src, dst_dir, new_name) called and run to its end by caller c
safe_rename_call(c, src, dst_dir, new_name) ==
    LET name == IF new_name = << >> THEN src[2] ELSE new_name
        r == safe_rename(files, src, dst_dir, name)
    IN  /\ c \notin DOMAIN mv
        /\ files' = r.files
        /\ mv' = Put(mv, c, [pc |-> IF r.ok THEN "done" ELSE "raised", src |-> src,
                              dst_dir |-> dst_dir, new_name |-> name, target |-> r.path])
        /\ UNCHANGED <<now, nvml, hw, jobs, usage, procs, tasks, stop_event, loop, acct,
                       logs, streamer, boots, calls, daemon, api, pick>>

\* safe_rename up to its loop: target = dst_dir / new_name, counter = 1
rename_begin(c, src, dst_dir, new_name) ==
    LET name == IF new_name = << >> THEN src[2] ELSE new_name
    IN  /\ c \notin DOMAIN mv
        /\ mv' = Put(mv, c, [pc |-> "exists", src |-> src, dst_dir |-> dst_dir,
                              new_name |-> name, target |-> <<dst_dir, name>>,
                              counter |-> 1])
        /\ UNCHANGED <<now, nvml, hw, jobs, files, usage, procs, tasks, stop_event, loop,
                       acct, logs, streamer, boots, calls, daemon, api, pick>>

\* one evaluation of `while target.exists()`, with the loop body when it holds
rename_exists(c) ==
    /\ c \in DOMAIN mv
    /\ mv[c].pc = "exists"
    /\ mv' = Put(mv, c,
                 IF mv[c].target \in DOMAIN files
                 THEN [mv[c] EXCEPT !.target = <<mv[c].dst_dir,
                                                 Suffixed(mv[c].new_name, mv[c].counter)>>,
                                    !.counter = mv[c].counter + 1]
                 ELSE [mv[c] EXCEPT !.pc = "replace"])
    /\ UNCHANGED <<now, nvml, hw, jobs, files, usage, procs, tasks, stop_event, loop,
                   acct, logs, streamer, boots, calls, daemon, api, pick>>

\* src.replace(target) and the return; it raises when src is gone
rename_replace(c) ==
    /\ c \in DOMAIN mv
    /\ mv[c].pc = "replace"
    /\ IF mv[c].src \in DOMAIN files
       THEN /\ files' = replace(files, mv[c].src, mv[c].target)
            /\ mv' = Put(mv, c, [mv[c] EXCEPT !.pc = "done"])
       ELSE /\ files' = files
            /\ mv' = Put(mv, c, [mv[c] EXCEPT !.pc = "raised"])
    /\ UNCHANGED <<now, nvml, hw, jobs, usage, procs, tasks, stop_event, loop, acct,
                   logs, streamer, boots, calls, daemon, api, pick>>

\* the layout used alone, one safe_rename call after the other
NextRename ==
    \/ \E n \in RenameNames, content \in 1..MaxFiles : write_file("uploads", n, content)
    \/ \E c \in 1..MaxCalls, src \in DOMAIN files, d \in RenameDirs,
          n \in RenameNames \cup {<< >>} : safe_rename_call(c, src, d, n)

SpecRename == InitVirtual /\ [][NextRename]_vars

\* the layout used by callers that run at the same time (threads or processes)
NextRace ==
    \/ \E n \in RenameNames, content \in 1..MaxFiles : write_file("uploads", n, content)
    \/ \E c \in 1..MaxRacers, src \in DOMAIN files, d \in RenameDirs,
          n \in RenameNames \cup {<< >>} : rename_begin(c, src, d, n)
    \/ \E c \in DOMAIN mv : rename_exists(c)
    \/ \E c \in DOMAIN mv : rename_replace(c)

SpecRace == InitVirtual /\ [][NextRace]_vars

\* environment: another process moves or removes a script the scheduler has queued or
\* is running; the scheduler's next Path.replace on it raises
external_remove(p) ==
    /\ p \in DOMAIN files
    /\ p[1] \in {"to_run", "running"}
    /\ files' = Drop(files, p)
    /\ UNCHANGED <<now, nvml, hw, jobs, usage, procs, tasks, stop_event, loop, acct,
                   logs, streamer, mv, boots, calls, daemon, api, pick>>

\* the scheduler's process ends (a crash) and GpuScheduler(root) is constructed and
\* started again on the same root: a new store, ledger and stop event, the directories
\* as they are; children_survive: whether the children outlive the old process
restart(children_survive) ==
    /\ boots' = boots + 1
    /\ jobs' = << >>
    /\ usage' = << >>
    /\ tasks' = << >>
    /\ acct' = << >>
    /\ procs' = IF children_survive THEN procs ELSE << >>
    /\ stop_event' = FALSE
    /\ loop' = "check"
    /\ UNCHANGED <<now, nvml, hw, files, logs, streamer, mv, calls, daemon, api, pick>>

\* the synthetic device with what can go wrong around the scheduler: a child that does
\* not start, a script moved away by someone else, a crash and a restart. Job ids are
\* positions in the store, so submissions are taken in the first boot only.
NextFaults ==
    \/ \E s \in Submissions :
          /\ Len(jobs) < MaxJobsFaults
          /\ boots = 1
          /\ submit_job(s[1], s[2], s[3], s[4])
    \/ \E spawn_ok \in BOOLEAN : run_forever(spawn_ok)
    \/ run_forever_wake
    \/ \E j \in DOMAIN tasks : _wait_and_finalize(j)
    \/ \E j \in DOMAIN procs, rc \in ExitCodes : child_exit(j, rc)
    \/ \E p \in DOMAIN files : external_remove(p)
    \/ \E children_survive \in BOOLEAN : boots < MaxBoots /\ restart(children_survive)

SpecFaults == InitVirtual /\ [][NextFaults]_vars

\* environment: a running child writes one more byte to its stdout, out/<job_id>.log
child_write(job_id) ==
    /\ job_id \in DOMAIN procs
    /\ procs[job_id].alive
    /\ logs' = Put(logs, job_id, logs[job_id] + 1)
    /\ UNCHANGED <<now, nvml, hw, jobs, files, usage, procs, tasks, stop_event, loop,
                   acct, streamer, mv, boots, calls, daemon, api, pick>>

\* GET /jobs/{job_id}/logs: 404 unless the job is in the store and its log file
\* exists; otherwise log_streamer is created and opens the file
stream_logs(job_id) ==
    /\ streamer.pc = "none"
    /\ job_id \in JobIds
    /\ job_id \in DOMAIN logs
    /\ streamer' = [job |-> job_id, pos |-> 0, pc |-> "read"]
    /\ UNCHANGED <<now, nvml, hw, jobs, files, usage, procs, tasks, stop_event, loop,
                   acct, logs, mv, boots, calls, daemon, api, pick>>

\* log_streamer: chunk = f.read(1024); a chunk is yielded, an empty one leads to the
\* status check
log_streamer_read ==
    /\ streamer.pc = "read"
    /\ LET chunk == Min(ChunkSize, logs[streamer.job] - streamer.pos)
       IN  streamer' = IF chunk > 0
                       THEN [streamer EXCEPT !.pos = streamer.pos + chunk]
                       ELSE [streamer EXCEPT !.pc = "status"]
    /\ UNCHANGED <<now, nvml, hw, jobs, files, usage, procs, tasks, stop_event, loop,
                   acct, logs, mv, boots, calls, daemon, api, pick>>

\* j.status in ("COMPLETED", "FAILED"); the job is in the store (it is never removed)
stream_ends(status) == status \in {"COMPLETED", "FAILED"}

\* log_streamer after an empty read: get_job, then break or asyncio.sleep(0.5)
log_streamer_status ==
    /\ streamer.pc = "status"
    /\ streamer' = [streamer EXCEPT !.pc = IF stream_ends(jobs[streamer.job].status)
                                           THEN "ended" ELSE "sleeping"]
    /\ UNCHANGED <<now, nvml, hw, jobs, files, usage, procs, tasks, stop_event, loop,
                   acct, logs, mv, boots, calls, daemon, api, pick>>

\* log_streamer's asyncio.sleep(0.5) returns
log_streamer_wake ==
    /\ streamer.pc = "sleeping"
    /\ streamer' = [streamer EXCEPT !.pc = "read"]
    /\ UNCHANGED <<now, nvml, hw, jobs, files, usage, procs, tasks, stop_event, loop,
                   acct, logs, mv, boots, calls, daemon, api, pick>>

\* mutant: an event loop that runs other tasks between the read and the status check
event_loop_free_always == TRUE

\* the event loop can run another task: log_streamer is not between its empty read and
\* its status check (get_job awaits a lock that is never held, so it does not suspend),
\* and _pick_next_job is not among its candidates (get_usage awaits such a lock too)
event_loop_free == streamer.pc /= "status" /\ loop /= "scoring"

\* the scheduler with a log stream: the tasks of the event loop, and beside them the
\* children, which write and exit at any time
NextStream ==
    \/ /\ event_loop_free
       /\ \/ \E s \in Submissions :
                Len(jobs) < MaxJobsStream /\ submit_job(s[1], s[2], s[3], s[4])
          \/ \E spawn_ok \in BOOLEAN : run_forever(spawn_ok)
          \/ run_forever_wake
          \/ \E j \in DOMAIN tasks : _wait_and_finalize(j)
          \/ \E j \in JobIds : stream_logs(j)
          \/ log_streamer_wake
    \/ log_streamer_read
    \/ log_streamer_status
    \/ \E j \in DOMAIN procs : logs[j] < MaxLogBytes /\ child_write(j)
    \/ \E j \in DOMAIN procs, rc \in ExitCodes : child_exit(j, rc)

SpecStream == InitVirtual /\ [][NextStream]_vars

\* _pick_next_job up to its loop: list_jobs and the candidates; no candidate, and
\* run_forever goes to its sleep
pick_begin ==
    /\ loop = "check"
    /\ ~is_set
    /\ IF CandidatesFrom(1) = << >>
       THEN loop' = "sleep" /\ pick' = pick
       ELSE loop' = "scoring" /\ pick' = [candidates |-> CandidatesFrom(1), k |-> 0]
    /\ UNCHANGED <<now, nvml, hw, jobs, files, usage, procs, tasks, stop_event, acct,
                   logs, streamer, mv, boots, calls, daemon, api>>

\* one turn of `for j in candidates`: j.priority_score = _calculate_slurm_priority(j)
pick_score ==
    /\ loop = "scoring"
    /\ pick.k < Len(pick.candidates)
    /\ LET j == pick.candidates[pick.k + 1]
       IN  jobs' = [jobs EXCEPT ![j].priority_score =
                       _calculate_slurm_priority(jobs[j], get_usage(jobs[j].user_id))]
    /\ pick' = [pick EXCEPT !.k = pick.k + 1]
    /\ UNCHANGED <<now, nvml, hw, files, usage, procs, tasks, stop_event, loop, acct,
                   logs, streamer, mv, boots, calls, daemon, api>>

\* the candidates of the call under way, sorted by the scores stored on them
PickRanked == SortDesc(pick.candidates, [i \in JobIds |-> jobs[i].priority_score])

\* the end of _pick_next_job, candidates.sort and candidates[0], and _launch_job on it
pick_launch ==
    /\ loop = "scoring"
    /\ pick.k = Len(pick.candidates)
    /\ _launch_job(PickRanked[1], jobs, TRUE)
    /\ pick' = NoPick
    /\ UNCHANGED <<now, nvml, hw, usage, stop_event, streamer, mv, boots, calls, daemon, api>>

\* the scheduler with _pick_next_job followed one candidate at a time: the tasks of
\* the event loop run only where the pass can be suspended; children exit and the
\* clock advances at any time
NextPass ==
    \/ /\ event_loop_free
       /\ \/ \E s \in Submissions :
                Len(jobs) < MaxJobsPass /\ submit_job(s[1], s[2], s[3], s[4])
          \/ run_forever_wake
          \/ \E j \in DOMAIN tasks : _wait_and_finalize(j)
    \/ pick_begin
    \/ pick_score
    \/ pick_launch
    \/ \E j \in DOMAIN procs, rc \in ExitCodes : child_exit(j, rc)
    \/ tick

SpecPass == InitVirtual /\ [][NextPass]_vars

\* the synthetic device with submit_job called with whatever it takes
NextSubmit ==
    \/ \E s \in SubmissionsAny :
          Len(jobs) < MaxJobsSubmit /\ submit_job(s[1], s[2], s[3], s[4])
    \/ run_forever(TRUE)
    \/ run_forever_wake
    \/ \E j \in DOMAIN tasks : _wait_and_finalize(j)
    \/ \E j \in DOMAIN procs, rc \in ExitCodes : child_exit(j, rc)
    \/ tick

SpecSubmit == InitVirtual /\ [][NextSubmit]_vars

\* ------------------------------------------------------ job manager daemon
Max(a, b) == IF a >= b THEN a ELSE b

\* str.lower() on the QoS names in use
lower(s) == IF s = "HIL" THEN "hil" ELSE s

\* round(x, 2) of x = n / d, in hundredths
Round2(n, d) == (2 * 100 * n + d) \div (2 * d)

\* ticks in a minute: f_age is total_seconds() / 60.0
TicksPerMinute == 60 \div DaemonTick

\* compute_priority(job, all_jobs), in hundredths
compute_priority(job, all_jobs) ==
    LET active == Cardinality({i \in 1..Len(all_jobs) :
                                  /\ all_jobs[i].user = job.user
                                  /\ all_jobs[i].status \in {"PENDING", "RUNNING"}})
        a == IF job.user /= "" THEN Max(active, 1) ELSE 1
        g == Max(job.gpu_count, 1)
        age == Max(dclock - job.submitted_at, 0)
        f_phys == IF job.phys THEN 1 ELSE 0
        f_hil == IF lower(job.qos) = "hil" THEN 1 ELSE 0
        d == a * g * TicksPerMinute
    IN  Round2(W_FAIR * g * TicksPerMinute + W_AGE * age * a * g + W_PHYS * f_phys * d
                  + W_RES * a * TicksPerMinute + W_HIL * f_hil * d,
               d)

\* the orders in which glob may list n job files
Orders(n) == {s \in [1..n -> 1..n] : \A i, k \in 1..n : s[i] = s[k] => i = k}

\* mutant: a RUNNING job completes whatever its age
Expired_at_once(job) == job.status = "RUNNING" /\ job.started_at /= None

\* (now - started).total_seconds() >= 30 for a RUNNING job with a started_at
Expired(job) ==
    /\ job.status = "RUNNING"
    /\ job.started_at /= None
    /\ (dclock - job.started_at) * DaemonTick >= QuantumSec

\* the entries after step 1 of process_jobs: RUNNING -> COMPLETED
AfterCompletion ==
    AsSeq([i \in 1..Len(djobs) |->
              IF Expired(djobs[i])
              THEN [djobs[i] EXCEPT !.status = "COMPLETED", !.completed_at = dclock]
              ELSE djobs[i]])

\* running_count, counted after step 1
running_count ==
    Cardinality({i \in 1..Len(djobs) : AfterCompletion[i].status = "RUNNING"})

\* mutant: the slots without the count of RUNNING jobs
available_slots_uncounted(count) == MaxConcurrent

\* available_slots = MAX_CONCURRENT - running_count
available_slots(count) == MaxConcurrent - count

\* the score step 3 gives entry i
PendingScore(i) == compute_priority(AfterCompletion[i], AfterCompletion)

\* the PENDING entries, in the order glob listed them
RECURSIVE PendingFrom(_, _)
PendingFrom(order, k) ==
    IF k > Len(order) THEN << >>
    ELSE IF AfterCompletion[order[k]].status = "PENDING"
         THEN <<order[k]>> \o PendingFrom(order, k + 1)
         ELSE PendingFrom(order, k + 1)

\* mutant: pending.sort without reverse=True
RECURSIVE SortAscending(_)
SortAscending(seq) ==
    IF seq = << >> THEN << >>
    ELSE LET rest == SortAscending(SubSeq(seq, 1, Len(seq) - 1))
             x == seq[Len(seq)]
             before == SelectSeq(rest, LAMBDA y : PendingScore(y) <= PendingScore(x))
             after == SelectSeq(rest, LAMBDA y : PendingScore(y) > PendingScore(x))
         IN  before \o <<x>> \o after

\* pending.sort(key=priority_score, reverse=True): stable
RECURSIVE SortPending(_)
SortPending(seq) ==
    IF seq = << >> THEN << >>
    ELSE LET rest == SortPending(SubSeq(seq, 1, Len(seq) - 1))
             x == seq[Len(seq)]
             before == SelectSeq(rest, LAMBDA y : PendingScore(y) >= PendingScore(x))
             after == SelectSeq(rest, LAMBDA y : PendingScore(y) < PendingScore(x))
         IN  before \o <<x>> \o after

\* the entries step 4 turns to RUNNING: the first available_slots of the sorted list
Promoted(order) ==
    LET sorted == SortPending(PendingFrom(order, 1))
        slots == available_slots(running_count)
    IN  IF slots <= 0 THEN {}
        ELSE {sorted[k] : k \in 1..Min(slots, Len(sorted))}

\* process_jobs, one pass of the daemon's loop, glob listing the files in `order`
process_jobs(order) ==
    /\ dloop = "run"
    /\ djobs' = AsSeq([i \in 1..Len(djobs) |->
                         IF i \in Promoted(order)
                         THEN [AfterCompletion[i] EXCEPT !.status = "RUNNING",
                                                         !.started_at = dclock,
                                                         !.priority_score = PendingScore(i)]
                         ELSE AfterCompletion[i]])
    /\ dloop' = "sleep"
    /\ UNCHANGED <<now, nvml, hw, jobs, files, usage, procs, tasks, stop_event, loop, acct,
                   logs, streamer, mv, boots, calls, dclock, api, pick>>

\* time.sleep(CHECK_INTERVAL) returns
daemon_wake ==
    /\ dloop = "sleep"
    /\ dloop' = "run"
    /\ UNCHANGED <<now, nvml, hw, jobs, files, usage, procs, tasks, stop_event, loop, acct,
                   logs, streamer, mv, boots, calls, dclock, djobs, api, pick>>

\* environment: a writer adds a PENDING job file
sbatch(user, gpu_count, qos, phys) ==
    /\ djobs' = Append(djobs,
          [job_id |-> Len(djobs) + 1, user |-> user, status |-> "PENDING",
           submitted_at |-> dclock, started_at |-> None, completed_at |-> None,
           gpu_count |-> gpu_count, qos |-> qos, phys |-> phys, priority_score |-> None])
    /\ UNCHANGED <<now, nvml, hw, jobs, files, usage, procs, tasks, stop_event, loop, acct,
                   logs, streamer, mv, boots, calls, dclock, dloop, api, pick>>

\* environment: the daemon's clock advances
daemon_tick ==
    /\ dclock < MaxDaemonTime
    /\ dclock' = dclock + 1
    /\ UNCHANGED <<now, nvml, hw, jobs, files, usage, procs, tasks, stop_event, loop, acct,
                   logs, streamer, mv, boots, calls, djobs, dloop, api, pick>>

\* the directories the daemon may find when it starts: at most MAX_CONCURRENT RUNNING
\* jobs, started at 0 or carrying no started_at
RunningFile(id, started_at) ==
    [job_id |-> id, user |-> "bob", status |-> "RUNNING", submitted_at |-> 0,
     started_at |-> started_at, completed_at |-> None, gpu_count |-> 1,
     qos |-> "normal", phys |-> FALSE, priority_score |-> None]

InitialDirs ==
    { << >>,
      << RunningFile(1, 0) >>,
      << RunningFile(1, 0), RunningFile(2, None) >> }

InitDaemon ==
    /\ InitScheduler
    /\ ~nvml
    /\ dclock = 0
    /\ djobs \in InitialDirs
    /\ dloop = "run"

NextDaemon ==
    \/ \E order \in Orders(Len(djobs)) : process_jobs(order)
    \/ daemon_wake
    \/ \E s \in DaemonSubmissions :
          Len(djobs) < MaxDaemonJobs /\ sbatch(s[1], s[2], s[3], s[4])
    \/ daemon_tick

SpecDaemon == InitDaemon /\ [][NextDaemon]_vars

\* UserUsageTracker.add_usage called on scheduler.usage_tracker: the ledger is seeded
seed_usage(user_id, duration_sec) ==
    /\ usage' = add_usage(user_id, duration_sec, 1)
    /\ UNCHANGED <<now, nvml, hw, jobs, files, procs, tasks, stop_event, loop, acct,
                   logs, streamer, mv, boots, calls, daemon, api, pick>>

\* scenario S3: a seeded ledger, jobs of two users, every child starts
NextS3 ==
    \/ \E u \in {"alice", "bob"}, d \in SeedDurations :
          get_total_usage < MaxSeedTotal /\ seed_usage(u, d)
    \/ \E s \in SubmissionsS3 : Len(jobs) < MaxJobsS3 /\ submit_job(s[1], s[2], s[3], s[4])
    \/ run_forever(TRUE)
    \/ run_forever_wake
    \/ \E j \in DOMAIN tasks : _wait_and_finalize(j)
    \/ \E j \in DOMAIN procs, rc \in ExitCodes : child_exit(j, rc)
    \/ tick

SpecS3 == Init /\ [][NextS3]_vars

\* environment: the clock advances by d between two passes
advance(d) ==
    /\ now + d <= MaxClockAging
    /\ now' = now + d
    /\ UNCHANGED <<nvml, hw, jobs, files, usage, procs, tasks, stop_event, loop, acct,
                   logs, streamer, mv, boots, calls, daemon, api, pick>>

\* jobs waiting up to and past max_age_sec behind a job that keeps the device, scored
\* by every pass against a ledger that is seeded from time to time
NextAging ==
    \/ \E u \in {"alice", "bob"}, d \in SeedDurations :
          get_total_usage < MaxSeedTotal /\ seed_usage(u, d)
    \/ \E s \in Submissions : Len(jobs) < MaxJobsAging /\ submit_job(s[1], s[2], s[3], s[4])
    \/ run_forever(TRUE)
    \/ run_forever_wake
    \/ \E d \in ClockJumps : advance(d)

SpecAging == InitVirtual /\ [][NextAging]_vars

\* ------------------------------------------------- the ledger, call by call
\* a frame for the steps of a ledger call
LedgerFrame ==
    UNCHANGED <<now, nvml, hw, jobs, files, procs, tasks, stop_event, loop, acct,
                logs, streamer, mv, boots, daemon, api, pick>>

\* mutant: the lock is never seen held
lock_free_always == TRUE

\* self._lock is not held: no call is inside its `async with self._lock` block
lock_free == \A c \in 1..Len(calls) : calls[c].pc \notin {"locked", "read"}

\* a supervisor task calls add_usage(user_id, duration_sec, gpu_count)
add_usage_call(user_id, duration_sec, gpu_count) ==
    /\ calls' = Append(calls, [op |-> "add", pc |-> "waiting", user_id |-> user_id,
                               amount |-> duration_sec, gpu_count |-> gpu_count,
                               current |-> None])
    /\ usage' = usage
    /\ LedgerFrame

\* the admission loop calls get_usage(user_id)
get_usage_call(user_id) ==
    /\ calls' = Append(calls, [op |-> "get", pc |-> "waiting", user_id |-> user_id,
                               amount |-> 0, gpu_count |-> 0, current |-> None])
    /\ usage' = usage
    /\ LedgerFrame

\* async with self._lock: call c enters the block
lock_acquire(c) ==
    /\ calls[c].pc = "waiting"
    /\ lock_free
    /\ calls' = Put(calls, c, [calls[c] EXCEPT !.pc = "locked"])
    /\ usage' = usage
    /\ LedgerFrame

\* add_usage: current = self._usage.get(user_id, 0.0)
add_usage_read(c) ==
    /\ calls[c].op = "add"
    /\ calls[c].pc = "locked"
    /\ calls' = Put(calls, c, [calls[c] EXCEPT !.pc = "read",
                                               !.current = get_usage(calls[c].user_id)])
    /\ usage' = usage
    /\ LedgerFrame

\* add_usage: the entry is stored and the block is left
add_usage_write(c) ==
    /\ calls[c].op = "add"
    /\ calls[c].pc = "read"
    /\ usage' = store_usage(calls[c].user_id, calls[c].current, calls[c].amount,
                            calls[c].gpu_count)
    /\ calls' = Put(calls, c, [calls[c] EXCEPT !.pc = "done"])
    /\ LedgerFrame

\* get_usage: the entry is returned and the block is left
get_usage_return(c) ==
    /\ calls[c].op = "get"
    /\ calls[c].pc = "locked"
    /\ calls' = Put(calls, c, [calls[c] EXCEPT !.pc = "done",
                                               !.current = get_usage(calls[c].user_id)])
    /\ usage' = usage
    /\ LedgerFrame

\* ledger calls of several tasks, free to interleave wherever a call could be suspended
NextLedger ==
    \/ \E a \in LedgerCharges :
          Len(calls) < MaxLedgerCalls /\ add_usage_call(a[1], a[2], a[3])
    \/ \E u \in LedgerUsers : Len(calls) < MaxLedgerCalls /\ get_usage_call(u)
    \/ \E c \in 1..Len(calls) : lock_acquire(c)
    \/ \E c \in 1..Len(calls) : add_usage_read(c)
    \/ \E c \in 1..Len(calls) : add_usage_write(c)
    \/ \E c \in 1..Len(calls) : get_usage_return(c)

SpecLedger == InitVirtual /\ [][NextLedger]_vars

\* a host with NVML and two devices, whose load and temperature change at any time
\* and whose temperature probe may fail
InitHealth ==
    /\ InitSchedulerOn(Devices(NumGpusHealth))
    /\ InitEngine
    /\ nvml
    /\ dclock = 0
    /\ djobs = << >>
    /\ dloop = "run"

NextHealth ==
    \/ \E s \in Submissions : Len(jobs) < MaxJobsHealth /\ submit_job(s[1], s[2], s[3], s[4])
    \/ run_forever(TRUE)
    \/ run_forever_wake
    \/ \E j \in DOMAIN tasks : _wait_and_finalize(j)
    \/ \E j \in DOMAIN procs, rc \in ExitCodes : child_exit(j, rc)
    \/ \E i \in 1..Len(hw), used \in UsedChoices, temp \in ProbedTemperatures :
          gpu_change(i, used, temp)

SpecHealth == InitHealth /\ [][NextHealth]_vars

\* ----------------------------------------------------- priority engine
\* PARTITION_SCORES / QOS_SCORES of PriorityConfig, in tenths; .get(name, 0.5)
PARTITION_SCORES(name) ==
    CASE name = "debug" -> 10
      [] name = "normal" -> 5
      [] name = "batch" -> 2
      [] OTHER -> 5

QOS_SCORES(name) ==
    CASE name = "hil" -> 10
      [] name = "high" -> 8
      [] name = "standard" -> 5
      [] name = "low" -> 1
      [] OTHER -> 5

\* job.get(key, default).lower() or default
lower_or(s, default) == IF s = "" THEN default ELSE lower(s)

\* engine scores are exact: [base, den] stands for
\* (base + EngineFairNum / den) * EngineUnit / EngineDen
EngineDen == Lcm(Lcm(MAX_AGE_SEC, MAX_VRAM_REF), TenthsDen)

EngineUnit ==
    Gcd(Gcd(Gcd(WEIGHT_AGE, WEIGHT_FAIRSHARE), Gcd(WEIGHT_JOB_SIZE, WEIGHT_PARTITION)),
        WEIGHT_QOS)

EngineFairNum == (WEIGHT_FAIRSHARE \div EngineUnit) * FAIRSHARE_DECAY_NORM * EngineDen

\* a >= b for two engine scores
EngineGE(a, b) ==
    (a.base - b.base) * a.den * b.den >= EngineFairNum * (a.den - b.den)

\* UsageTracker.get_usage on the table usage_data
tracker_get_usage(usage_data, user) ==
    IF user \in DOMAIN usage_data THEN usage_data[user] ELSE 0

\* PriorityEngine.calculate_priority(job), against the table usage_data
calculate_priority(job, usage_data) ==
    LET qos == lower_or(job.qos, "standard")
        partition == lower_or(job.partition, "normal")
        wait_time_sec == now - job.submitted_at
        age == Min(wait_time_sec, MAX_AGE_SEC)
        size == Min(job.vram_gb, MAX_VRAM_REF)
    IN  [base |-> (WEIGHT_AGE \div EngineUnit) * age * (EngineDen \div MAX_AGE_SEC)
                + (WEIGHT_JOB_SIZE \div EngineUnit) * size * (EngineDen \div MAX_VRAM_REF)
                + (WEIGHT_PARTITION \div EngineUnit) * PARTITION_SCORES(partition)
                      * (EngineDen \div TenthsDen)
                + (WEIGHT_QOS \div EngineUnit) * QOS_SCORES(qos)
                      * (EngineDen \div TenthsDen),
         den  |-> FAIRSHARE_DECAY_NORM + tracker_get_usage(usage_data, job.user)]

\* UsageTracker.record_usage: the table after the charge, in VRAM-hours
record_usage(usage_data, user, vram_gb, duration_sec) ==
    [u \in DOMAIN usage_data \cup {user} |->
        IF u = user THEN tracker_get_usage(usage_data, user) + vram_gb * duration_sec
        ELSE usage_data[u]]

\* sort_jobs_by_priority: whether the loop calls record_usage for this job
to_record(job, processed_job_ids) ==
    /\ job.status = "COMPLETED"
    /\ job.job_id \notin processed_job_ids
    /\ job.started_at /= None
    /\ job.completed_at /= None

\* the loop of sort_jobs_by_priority over jobs[k..]: each job is scored against the
\* table as it is when the loop reaches it, and charged if it is to be recorded;
\* save_ok: whether _save_db writes usage.json or raises
RECURSIVE ScoreAndRecord(_, _, _, _)
ScoreAndRecord(jobs_in, k, st, save_ok) ==
    IF k > Len(jobs_in) THEN st
    ELSE LET job == jobs_in[k]
             scored == [job EXCEPT !.priority_score = calculate_priority(job, st.usage_data)]
             rec == to_record(job, st.processed_job_ids)
         IN  ScoreAndRecord(jobs_in, k + 1,
                 [usage_data |->
                      IF rec THEN record_usage(st.usage_data, job.user, job.vram_gb,
                                               job.completed_at - job.started_at)
                      ELSE st.usage_data,
                  processed_job_ids |->
                      IF rec /\ save_ok THEN st.processed_job_ids \cup {job.job_id}
                      ELSE st.processed_job_ids,
                  recorded |->
                      IF rec
                      THEN Put(st.recorded, job.job_id,
                               (IF job.job_id \in DOMAIN st.recorded
                                THEN st.recorded[job.job_id] ELSE 0) + 1)
                      ELSE st.recorded,
                  result |-> Append(st.result, scored)],
                 save_ok)

\* mutant: pending.sort without reverse=True
RECURSIVE SortScoreAscending(_)
SortScoreAscending(seq) ==
    IF seq = << >> THEN << >>
    ELSE LET rest == SortScoreAscending(SubSeq(seq, 1, Len(seq) - 1))
             x == seq[Len(seq)]
             before == SelectSeq(rest, LAMBDA y :
                           EngineGE(x.priority_score, y.priority_score))
             after == SelectSeq(rest, LAMBDA y :
                           ~EngineGE(x.priority_score, y.priority_score))
         IN  before \o <<x>> \o after

\* pending.sort(key=priority_score, reverse=True): stable
RECURSIVE SortScoreDesc(_)
SortScoreDesc(seq) ==
    IF seq = << >> THEN << >>
    ELSE LET rest == SortScoreDesc(SubSeq(seq, 1, Len(seq) - 1))
             x == seq[Len(seq)]
             before == SelectSeq(rest, LAMBDA y :
                           EngineGE(y.priority_score, x.priority_score))
             after == SelectSeq(rest, LAMBDA y :
                           ~EngineGE(y.priority_score, x.priority_score))
         IN  before \o <<x>> \o after

\* completed.sort(key=completed_at, reverse=True): stable, a missing completed_at last
RECURSIVE SortCompletedDesc(_)
SortCompletedDesc(seq) ==
    IF seq = << >> THEN << >>
    ELSE LET rest == SortCompletedDesc(SubSeq(seq, 1, Len(seq) - 1))
             x == seq[Len(seq)]
             before == SelectSeq(rest, LAMBDA y : y.completed_at >= x.completed_at)
             after == SelectSeq(rest, LAMBDA y : y.completed_at < x.completed_at)
         IN  before \o <<x>> \o after

\* running + pending + completed + other, from the scored jobs
Grouped(scored) ==
    SelectSeq(scored, LAMBDA j : j.status = "RUNNING")
    \o SortScoreDesc(SelectSeq(scored, LAMBDA j : j.status = "PENDING"))
    \o SortCompletedDesc(SelectSeq(scored, LAMBDA j : j.status = "COMPLETED"))
    \o SelectSeq(scored, LAMBDA j : j.status \notin {"RUNNING", "PENDING", "COMPLETED"})

\* sort_jobs_by_priority(jobs): the module state after the call, with what it returns
sort_jobs_by_priority(jobs_in, save_ok) ==
    LET st == ScoreAndRecord(jobs_in, 1, [engine EXCEPT !.result = << >>], save_ok)
    IN  [st EXCEPT !.result = Grouped(st.result)]

\* SlurmService.get_jobs: squeue lists the jobs in `order`, the list is sorted
get_jobs(order, save_ok) ==
    /\ engine' = sort_jobs_by_priority(
                     AsSeq([k \in 1..Len(squeue) |-> squeue[order[k]]]), save_ok)
    /\ UNCHANGED <<now, nvml, hw, jobs, files, usage, procs, tasks, stop_event, loop, acct,
                   logs, streamer, mv, boots, calls, daemon, squeue, pick>>

\* environment: squeue reports a new PENDING job
squeue_add(user, vram_gb, partition, qos) ==
    /\ squeue' = Append(squeue,
          [job_id |-> Len(squeue) + 1, user |-> user, status |-> "PENDING",
           vram_gb |-> vram_gb, partition |-> partition, qos |-> qos,
           submitted_at |-> now, started_at |-> None, completed_at |-> None,
           priority_score |-> None])
    /\ UNCHANGED <<now, nvml, hw, jobs, files, usage, procs, tasks, stop_event, loop, acct,
                   logs, streamer, mv, boots, calls, daemon, engine, pick>>

\* environment: squeue reports job i in its next status, with the time of the change
squeue_change(i, status) ==
    /\ \/ squeue[i].status = "PENDING" /\ status \in {"RUNNING", "CANCELLED"}
       \/ squeue[i].status = "RUNNING" /\ status = "COMPLETED"
    /\ squeue' = Put(squeue, i,
          CASE status = "RUNNING" -> [squeue[i] EXCEPT !.status = status, !.started_at = now]
            [] status = "COMPLETED" ->
                 [squeue[i] EXCEPT !.status = status, !.completed_at = now]
            [] OTHER -> [squeue[i] EXCEPT !.status = status])
    /\ UNCHANGED <<now, nvml, hw, jobs, files, usage, procs, tasks, stop_event, loop, acct,
                   logs, streamer, mv, boots, calls, daemon, engine, pick>>

\* the API process serving get_jobs while the cluster's jobs come and go; every write
\* of usage.json succeeds
NextEngine ==
    \/ \E s \in EngineSubmissions :
          Len(squeue) < MaxEngineJobs /\ squeue_add(s[1], s[2], s[3], s[4])
    \/ \E i \in 1..Len(squeue), status \in {"RUNNING", "COMPLETED", "CANCELLED"} :
          squeue_change(i, status)
    \/ \E order \in Orders(Len(squeue)) : get_jobs(order, TRUE)
    \/ tick

SpecEngine == InitVirtual /\ [][NextEngine]_vars

\* the API process when a write of usage.json can fail (a full disk, a directory that
\* is not writable): _save_db raises inside record_usage; a job is charged at most
\* MaxRecordings times before the writes succeed again
NextEngineFaults ==
    \/ \E s \in EngineSubmissions :
          Len(squeue) < MaxEngineJobsFaults /\ squeue_add(s[1], s[2], s[3], s[4])
    \/ \E i \in 1..Len(squeue), status \in {"RUNNING", "COMPLETED", "CANCELLED"} :
          squeue_change(i, status)
    \/ \E order \in Orders(Len(squeue)) : get_jobs(order, TRUE)
    \/ \E order \in Orders(Len(squeue)) :
          /\ \A j \in DOMAIN engine.recorded : engine.recorded[j] < MaxRecordings
          /\ get_jobs(order, FALSE)
    \/ tick

SpecEngineFaults == InitVirtual /\ [][NextEngineFaults]_vars

\* the synthetic device with the event loop running every ready task: a pass that is
\* due is taken, a sleep ends, a supervisor whose child has exited resumes; and every
\* started child exits
NextLive ==
    \/ \E s \in Submissions : Len(jobs) < MaxJobsLive /\ submit_job(s[1], s[2], s[3], s[4])
    \/ run_forever(TRUE)
    \/ run_forever_wake
    \/ \E j \in DOMAIN tasks : _wait_and_finalize(j)
    \/ \E j \in DOMAIN procs, rc \in ExitCodes : child_exit(j, rc)
    \/ tick

SpecLive ==
    /\ InitVirtual
    /\ [][NextLive]_vars
    /\ WF_vars(run_forever(TRUE))
    /\ WF_vars(run_forever_wake)
    /\ \A j \in 1..MaxJobsLive :
          /\ WF_vars(_wait_and_finalize(j))
          /\ WF_vars(\E rc \in ExitCodes : child_exit(j, rc))

\* ---------------------------------------------------------------- claims
\* the score _calculate_slurm_priority gives job j now, against the ledger as it is
Priority(j) == _calculate_slurm_priority(jobs[j], get_usage(jobs[j].user_id))

\* _find_available_gpu would return a GPU for job k now
HasGpu(k) == _find_available_gpu(jobs[k].vram_required) /= None

\* the step is an admission pass of run_forever
IsPass == loop = "check" /\ ~stop_event /\ loop' /= "check"

\* job j's script: the paths holding it, among the state directories
StateDirs == {"to_run", "running", "complete", "fail"}
ScriptPaths(j) == {p \in DOMAIN files : files[p] = j /\ p[1] \in StateDirs}

DirOf(status) ==
    CASE status = "QUEUED" -> "to_run"
      [] status = "RUNNING" -> "running"
      [] status = "COMPLETED" -> "complete"
      [] status = "FAILED" -> "fail"

\* C1: in every reachable state the number of RUNNING jobs is at most MaxConcurrent,
\* whatever GPUs the inventory reports.
C1_RunningWithinMaxConcurrent == Cardinality(Running) <= MaxConcurrent

\* C2: every admission takes a job whose score, computed at the time of the pass
\* against the ledger of that time, is at least the score of every QUEUED job for
\* which _find_available_gpu would have returned a GPU at that time.
C2_AdmitsHighestScoring ==
    [][\A j \in JobIds :
          (jobs[j].status = "QUEUED" /\ jobs'[j].status = "RUNNING")
          => \A k \in Queued : HasGpu(k) => ScoreGE(Priority(j), Priority(k))]_vars

\* C2 witness: a job runs that was submitted after a job still waiting, that the
\* device can take, and that a pass scored strictly lower
C2_Witness ==
    \E j \in Running, k \in Queued :
        /\ k < j
        /\ jobs[k].vram_required <= VirtualGpuTotal
        /\ jobs[k].priority_score /= ZeroScore
        /\ jobs[j].user_id /= jobs[k].user_id
        /\ get_usage(jobs[k].user_id) > 0
        /\ ScoreGT(jobs[j].priority_score, jobs[k].priority_score)

\* C3: a pass whose highest-scoring QUEUED job has no suitable GPU skips it and admits
\* a lower-scoring QUEUED job that has one.
C3_SkipsBlockedCandidate ==
    [][(/\ IsPass
        /\ _pick_next_job /= 0
        /\ ~HasGpu(_pick_next_job)
        /\ \E k \in Queued : HasGpu(k))
       => \E k \in Queued : jobs'[k].status = "RUNNING"]_vars

\* C4: a step taken where _find_available_gpu returns None for a QUEUED job does not
\* admit it: it stays QUEUED with assigned_gpu and pid unset, its script stays where
\* it is in to_run, and it has no child process and no supervisor task.
C4_NoGpuNoAdmission ==
    [][\A j \in Queued :
          ~HasGpu(j)
          => /\ jobs'[j].status = "QUEUED"
             /\ jobs'[j].assigned_gpu = None
             /\ jobs'[j].pid = None
             /\ jobs'[j].script_path = jobs[j].script_path
             /\ jobs'[j].script_path[1] = "to_run"
             /\ jobs'[j].script_path \in DOMAIN files'
             /\ j \notin DOMAIN procs'
             /\ j \notin DOMAIN tasks']_vars

\* C4 witness: a pass has just scored the job it picked, on the synthetic device, and
\* found no GPU for it
C4_Witness ==
    /\ ~nvml
    /\ loop = "sleep"
    /\ \E j \in Queued :
          /\ _pick_next_job = j
          /\ jobs[j].priority_score = Priority(j)
          /\ ~HasGpu(j)
          /\ jobs[j].script_path[1] = "to_run"

\* C5: a job's status only moves QUEUED -> RUNNING -> COMPLETED or FAILED; every other
\* step leaves it as it is, and a job enters the store as QUEUED.
C5_LifecycleOrder ==
    [][/\ Len(jobs') >= Len(jobs)
       /\ \A j \in 1..Len(jobs') :
             IF j \in JobIds
             THEN \/ jobs'[j].status = jobs[j].status
                  \/ jobs[j].status = "QUEUED" /\ jobs'[j].status = "RUNNING"
                  \/ jobs[j].status = "RUNNING"
                     /\ jobs'[j].status \in {"COMPLETED", "FAILED"}
             ELSE jobs'[j].status = "QUEUED"]_vars

\* C5 witness: one job went all the way to FAILED while another is RUNNING
C5_Witness ==
    \E j \in JobIds, k \in Running : jobs[j].status = "FAILED" /\ acct[j].end /= None

\* C6: on the synthetic device alone, while a job J1 is RUNNING every QUEUED job J2
\* (whatever its score) stays QUEUED, and J1 leaves RUNNING only for COMPLETED or
\* FAILED, in a step taken after its own child has exited.
C6_NonPreemption ==
    [][~nvml =>
         \A j1 \in Running :
            /\ \A j2 \in 1..Len(jobs') :
                  (j2 \notin JobIds \/ jobs[j2].status = "QUEUED")
                  => jobs'[j2].status = "QUEUED"
            /\ jobs'[j1].status /= "RUNNING"
               => /\ jobs'[j1].status \in {"COMPLETED", "FAILED"}
                  /\ j1 \in DOMAIN procs
                  /\ ~procs[j1].alive
            /\ (j1 \in DOMAIN procs /\ procs[j1].alive /\ ~procs'[j1].alive)
               => UNCHANGED <<jobs, files, usage, tasks, loop>>]_vars

\* C6 witness: J1 runs with a live child while J2, submitted since, that the device
\* could hold and that a pass has scored strictly higher than J1, is still QUEUED
C6_Witness ==
    /\ ~nvml
    /\ \E j1 \in Running, j2 \in Queued :
          /\ j1 < j2
          /\ j1 \in DOMAIN procs /\ procs[j1].alive
          /\ jobs[j2].vram_required <= VirtualGpuTotal
          /\ jobs[j2].priority_score = Priority(j2)
          /\ ScoreGT(jobs[j2].priority_score, jobs[j1].priority_score)

\* C7: in every reachable state each job's script is in exactly one of the state
\* directories, the one of the job's status: QUEUED in to_run, RUNNING in running,
\* COMPLETED in complete, FAILED in fail.
C7_ScriptDirMatchesStatus ==
    \A j \in JobIds :
        /\ Cardinality(ScriptPaths(j)) = 1
        /\ \A p \in ScriptPaths(j) : p[1] = DirOf(jobs[j].status)

\* C7 witness: after a submission, an admission and a finalization: one job FAILED,
\* one RUNNING
C7_Witness ==
    \E j \in JobIds, k \in Running :
        /\ jobs[j].status = "FAILED"
        /\ <<"fail", <<j>>>> \in DOMAIN files
        /\ <<"running", <<k>>>> \in DOMAIN files

\* C8: a RUNNING job leaves RUNNING only once its child has exited, and then by the
\* return code: 0 gives COMPLETED with the script moved from running to complete, any
\* other code (a signal's negative code too) gives FAILED with the script moved from
\* running to fail; the supervisor's step leaves no job RUNNING.
C8_ExitCodeClassifies ==
    [][\A j \in Running :
          /\ jobs'[j].status /= "RUNNING"
             => /\ j \in DOMAIN procs
                /\ ~procs[j].alive
                /\ ScriptPaths(j) = {<<"running", jobs[j].script_path[2]>>}
                /\ IF procs[j].rc = 0
                   THEN /\ jobs'[j].status = "COMPLETED"
                        /\ \A p \in {q \in DOMAIN files' : files'[q] = j} : p[1] = "complete"
                   ELSE /\ jobs'[j].status = "FAILED"
                        /\ \A p \in {q \in DOMAIN files' : files'[q] = j} : p[1] = "fail"
          /\ (j \in DOMAIN tasks /\ j \notin DOMAIN tasks')
             => jobs'[j].status \in {"COMPLETED", "FAILED"}]_vars

\* C8 witness: a COMPLETED job with its script in complete and a FAILED job with its
\* script in fail
C8_Witness ==
    \E j, k \in JobIds :
        /\ jobs[j].status = "COMPLETED" /\ ScriptPaths(j) = {<<"complete", <<j>>>>}
        /\ jobs[k].status = "FAILED" /\ ScriptPaths(k) = {<<"fail", <<k>>>>}

\* C9: for every COMPLETED or FAILED job, the ledger entry of its user is at least the
\* entry at the job's admission plus the time the job ran.
C9_LedgerCharged ==
    \A j \in Terminal :
        /\ j \in DOMAIN acct
        /\ acct[j].end /= None
        /\ get_usage(jobs[j].user_id) >= acct[j].before + (acct[j].end - acct[j].start)

\* C9 witness: a FAILED job that ran for some time, whose user was also charged for
\* another job meanwhile
C9_Witness ==
    \E j \in Terminal :
        /\ jobs[j].status = "FAILED"
        /\ acct[j].end - acct[j].start > 0
        /\ get_usage(jobs[j].user_id) > acct[j].before + (acct[j].end - acct[j].start)

\* the jobs of scenario S2: J1 (alice, standard) then J2 (bob, hil), otherwise alike
InS2 ==
    /\ ~nvml
    /\ Len(jobs) >= 2
    /\ jobs[1].user_id = "alice" /\ jobs[1].qos = "standard"
    /\ jobs[2].user_id = "bob" /\ jobs[2].qos = "hil"
    /\ jobs[1].vram_required = jobs[2].vram_required
    /\ jobs[1].partition = jobs[2].partition
    /\ usage = << >>

\* C10: in scenario S2 (one synthetic GPU, empty ledger, J1 and J2 both QUEUED before
\* the pass), J1 is not admitted while J2 is QUEUED or RUNNING: J2 goes first.
C10_HilAdmittedFirst ==
    [][(InS2 /\ jobs[1].status = "QUEUED" /\ jobs[2].status \in {"QUEUED", "RUNNING"})
       => jobs'[1].status = "QUEUED"]_vars

\* the jobs of scenario S3: j1 of alice and j2 of bob, submitted at the same time and
\* alike in partition, QoS and VRAM, with the ledger at alice 36000 s and bob nothing
InS3(j1, j2) ==
    /\ jobs[j1].user_id = "alice" /\ jobs[j2].user_id = "bob"
    /\ jobs[j1].created_at = jobs[j2].created_at
    /\ jobs[j1].partition = jobs[j2].partition
    /\ jobs[j1].qos = jobs[j2].qos
    /\ jobs[j1].vram_required = jobs[j2].vram_required
    /\ "alice" \in DOMAIN usage /\ usage["alice"] * SecPerTick = 36000
    /\ "bob" \in DOMAIN usage => usage["bob"] = 0

\* C11: in scenario S3 alice's fair-share factor is 0.5 (norm / (norm + usage) with
\* usage = norm) and bob's is 1.0, J2 scores strictly higher than J1, and while both
\* are QUEUED no step admits J1: J2 is admitted first.
C11_FairShareAdmitsBobFirst ==
    [][\A j1, j2 \in JobIds :
          InS3(j1, j2)
          => /\ Priority(j1).den = 2 * fairshare_decay_norm
             /\ Priority(j2).den = fairshare_decay_norm
             /\ ScoreGT(Priority(j2), Priority(j1))
             /\ (jobs[j1].status = "QUEUED" /\ jobs[j2].status = "QUEUED")
                => jobs'[j1].status = "QUEUED"]_vars

\* C11 witness: in scenario S3, J2 is RUNNING and J1, stored before it, is still
\* QUEUED with the score a pass gave it
C11_Witness ==
    \E j1, j2 \in JobIds :
        /\ InS3(j1, j2)
        /\ j1 < j2
        /\ jobs[j2].status = "RUNNING"
        /\ jobs[j1].status = "QUEUED"
        /\ jobs[j1].priority_score = Priority(j1)

\* some healthy GPU of the inventory is large enough for job j's request
CanBePlaced(j) ==
    \E g \in 1..Len(list_gpus) :
        list_gpus[g].is_healthy /\ list_gpus[g].memory_total >= jobs[j].vram_required

\* C12: with the loop iterating, every child exiting and finitely many submissions,
\* every QUEUED job whose request some healthy GPU can meet is eventually admitted,
\* whatever else is in the queue.
C12_NoStarvation ==
    \A j \in 1..MaxJobsLive :
        (j \in Queued /\ CanBePlaced(j)) ~> (j \in JobIds /\ jobs[j].status /= "QUEUED")

\* caller c's safe_rename call returns in this step
Returns(c) == c \notin DOMAIN mv /\ c \in DOMAIN mv' /\ mv'[c].pc = "done"

\* name is new_name itself or new_name with a counter k, every smaller counter's name
\* (and new_name) being taken in fs
FirstFree(fs, dst_dir, new_name, name) ==
    IF <<dst_dir, new_name>> \notin DOMAIN fs
    THEN name = new_name
    ELSE \E k \in 1..(MaxFiles + 1) :
            /\ name = Suffixed(new_name, k)
            /\ \A i \in 1..(k - 1) : <<dst_dir, Suffixed(new_name, i)>> \in DOMAIN fs

\* C13: a safe_rename call made on its own overwrites nothing: every other file keeps
\* its path and content, the moved file keeps its content under a name that was free,
\* that name is new_name or the first free one among stem_1, stem_2, ..., and it is the
\* path returned.
C13_SafeRenameNeverOverwrites ==
    [][\A c \in 1..MaxCalls :
          Returns(c)
          => LET src == mv'[c].src
                 ret == mv'[c].target
             IN  /\ \A p \in DOMAIN files \ {src} :
                       p \in DOMAIN files' /\ files'[p] = files[p]
                 /\ ret \notin DOMAIN files
                 /\ DOMAIN files' = (DOMAIN files \ {src}) \cup {ret}
                 /\ files'[ret] = files[src]
                 /\ ret[1] = mv'[c].dst_dir
                 /\ FirstFree(files, mv'[c].dst_dir, mv'[c].new_name, ret[2])]_vars

\* C13 witness: three files moved under one name into one directory are there under
\* the name, stem_1 and stem_2, each with its own content
C13_Witness ==
    \E c1, c2, c3 \in DOMAIN mv :
        /\ mv[c1].pc = "done" /\ mv[c2].pc = "done" /\ mv[c3].pc = "done"
        /\ mv[c1].target = <<"to_run", <<"a">>>>
        /\ mv[c2].target = <<"to_run", <<"a", 1>>>>
        /\ mv[c3].target = <<"to_run", <<"a", 2>>>>
        /\ mv[c2].new_name = <<"a">> /\ mv[c3].new_name = <<"a">>
        /\ {mv[c1].target, mv[c2].target, mv[c3].target} \subseteq DOMAIN files
        /\ Cardinality({files[mv[c1].target], files[mv[c2].target],
                        files[mv[c3].target]}) = 3

\* C14: of two safe_rename calls running at the same time with different sources
\* (outside the destination), the same destination directory and the same name,
\* neither destroys a file: the replace
\* step of one leaves every other file at its path with its content, so that both
\* moved files exist afterwards, the loser of the race under a suffixed name.
C14_ConcurrentRenameKeepsBoth ==
    [][\A c1, c2 \in DOMAIN mv :
          (/\ c1 /= c2
           /\ mv[c1].src /= mv[c2].src
           /\ mv[c1].src[1] /= mv[c1].dst_dir /\ mv[c2].src[1] /= mv[c2].dst_dir
           /\ mv[c1].dst_dir = mv[c2].dst_dir
           /\ mv[c1].new_name = mv[c2].new_name
           /\ mv[c1].pc = "replace" /\ mv'[c1].pc = "done")
          => /\ \A p \in DOMAIN files \ {mv[c1].src} :
                   p \in DOMAIN files' /\ files'[p] = files[p]
             /\ mv[c2].pc = "done" => mv'[c1].target /= mv[c2].target]_vars

\* C15: a job whose child could not be started is not left RUNNING: every RUNNING job
\* has a process (a pid) and its script is not kept in running/ without one.
C15_SpawnFailureFailsJob == \A j \in Running : jobs[j].pid /= None

\* C16: when the supervisor ends for a RUNNING job whose script is no longer where the
\* job has it (the rename out of running/ fails), the job still gets the status of its
\* return code, COMPLETED for 0 and FAILED otherwise, and does not stay RUNNING.
C16_RenameFailureStillFinalizes ==
    [][\A j \in Running :
          (/\ j \in DOMAIN tasks
           /\ j \notin DOMAIN tasks'
           /\ boots' = boots
           /\ jobs[j].script_path \notin DOMAIN files)
          => jobs'[j].status = (IF procs[j].rc = 0 THEN "COMPLETED" ELSE "FAILED")]_vars

\* C17: no error raised while admitting a job ends the admission loop: run_forever is
\* never left through an exception.
C17_LoopSurvivesAdmissionErrors == loop /= "crashed"

\* C18: once a scheduler started again on the root has made its first pass, no script
\* is in running/ without a live process: those found there were moved to fail/ and
\* are in the store as FAILED jobs.
C18_RestartReconcilesRunning ==
    (boots > 1 /\ loop = "sleep")
    => /\ \A p \in DOMAIN files :
             p[1] = "running" => (files[p] \in DOMAIN procs /\ procs[files[p]].alive)
       /\ \A p \in DOMAIN files :
             p[1] = "fail" => \E j \in JobIds : jobs[j].status = "FAILED"

\* C19: once the stop signal is set (the loop observes it at its next check) no step
\* moves a job from QUEUED to RUNNING; setting the signal and ending the loop leave the
\* children and their supervisors alone; and a supervisor whose child has exited can
\* still resume, and then gives the job the status of its return code and charges the
\* ledger with the time the job ran.
C19_GracefulShutdown ==
    /\ [][/\ stop_event => \A j \in Queued : jobs'[j].status = "QUEUED"
          /\ (stop_event' /= stop_event \/ (loop' = "exited" /\ loop /= "exited"))
             => (procs' = procs /\ tasks' = tasks /\ jobs' = jobs)
          /\ \A j \in Running :
                (stop_event /\ j \in DOMAIN tasks /\ j \notin DOMAIN tasks')
                => /\ jobs'[j].status = (IF procs[j].rc = 0 THEN "COMPLETED" ELSE "FAILED")
                   /\ usage'[jobs[j].user_id]
                         = get_usage(jobs[j].user_id) + (now - tasks[j].start_time)]_vars
    /\ [](\A j \in Running :
             (stop_event /\ j \in DOMAIN tasks /\ ~procs[j].alive)
             => ENABLED _wait_and_finalize(j))

\* C19 witness: the loop has ended on the stop signal while one job, whose child has
\* exited since, is still RUNNING and another, for which a GPU is free, is QUEUED
C19_Witness ==
    /\ stop_event
    /\ loop = "exited"
    /\ \E j \in Running, k \in Queued :
          /\ j \in DOMAIN tasks
          /\ ~procs[j].alive
          /\ HasGpu(k)

\* C20: when the log stream of a job has ended the job is COMPLETED or FAILED and every
\* byte written to its log has been yielded; and an empty read on a job that is not
\* COMPLETED or FAILED is followed by a poll (the sleep), not by the end of the stream.
C20_LogStreamEndsAfterAllBytes ==
    /\ [](streamer.pc = "ended"
           => /\ jobs[streamer.job].status \in {"COMPLETED", "FAILED"}
              /\ streamer.pos = logs[streamer.job])
    /\ [][(streamer.pc = "status" /\ streamer'.pc /= "status")
           => IF jobs[streamer.job].status \in {"COMPLETED", "FAILED"}
              THEN streamer'.pc = "ended" /\ streamer.pos = logs[streamer.job]
              ELSE streamer'.pc = "sleeping"]_vars

\* C20 witness: a stream has ended after yielding a log longer than one chunk
C20_Witness ==
    /\ streamer.pc = "ended"
    /\ streamer.pos = MaxLogBytes
    /\ logs[streamer.job] = MaxLogBytes

\* C21: submit_job adds no job record for invalid input: no job with a negative
\* vram_required is in the store, and none whose script is not in a state directory.
C21_SubmitRejectsInvalidInput ==
    \A j \in JobIds :
        /\ jobs[j].vram_required >= 0
        /\ ScriptPaths(j) /= {}

\* the daemon's job files in a status
InStatus(status) == {i \in 1..Len(djobs) : djobs[i].status = status}

\* a step of the daemon that is one pass of process_jobs
IsDaemonPass == dloop = "run" /\ dloop' = "sleep"

\* the files a pass turned from PENDING to RUNNING
PromotedInStep == {i \in InStatus("PENDING") : djobs'[i].status = "RUNNING"}

\* the files RUNNING before a pass and still RUNNING after it
StillRunning == {i \in InStatus("RUNNING") : djobs'[i].status = "RUNNING"}

\* C22: in the daemon at most MAX_CONCURRENT job files are RUNNING, at any time and so
\* after every pass, and a pass in which MAX_CONCURRENT jobs stay RUNNING promotes none.
C22_DaemonRunningCap ==
    /\ [](Cardinality(InStatus("RUNNING")) <= MaxConcurrent)
    /\ [][(IsDaemonPass /\ Cardinality(StillRunning) >= MaxConcurrent)
           => PromotedInStep = {}]_vars

\* C22 witness: after a pass MAX_CONCURRENT jobs are RUNNING, one of them promoted by
\* the daemon, and a PENDING job is left waiting
C22_Witness ==
    /\ dloop = "sleep"
    /\ Cardinality(InStatus("RUNNING")) = MaxConcurrent
    /\ \E i \in InStatus("RUNNING") : djobs[i].priority_score /= None
    /\ InStatus("PENDING") /= {}

\* C23: a pass with s > 0 free slots and pending set P promotes exactly min(s, |P|)
\* jobs, stores on each the score computed in the pass, and each promoted job's score
\* is at least the score of each PENDING job it leaves behind.
C23_DaemonPromotesBest ==
    [][(IsDaemonPass /\ MaxConcurrent - Cardinality(StillRunning) > 0)
        => /\ Cardinality(PromotedInStep)
                = Min(MaxConcurrent - Cardinality(StillRunning),
                      Cardinality(InStatus("PENDING")))
           /\ \A i \in PromotedInStep :
                 /\ djobs'[i].priority_score = PendingScore(i)
                 /\ \A k \in InStatus("PENDING") \ PromotedInStep :
                       PendingScore(i) >= PendingScore(k)]_vars

\* C23 witness: a job promoted by the daemon runs while a job filed before it is
\* still PENDING
C23_Witness ==
    \E i, k \in 1..Len(djobs) :
        /\ i < k
        /\ djobs[i].status = "PENDING"
        /\ djobs[k].status = "RUNNING"
        /\ djobs[k].priority_score /= None

C25_MonotoneAging ==
    [][\A j \in JobIds :
          ( /\ now' > now
            /\ jobs'[j].created_at = jobs[j].created_at
            /\ jobs'[j].vram_required = jobs[j].vram_required
            /\ jobs'[j].partition = jobs[j].partition
            /\ jobs'[j].qos = jobs[j].qos
            /\ get_usage(jobs[j].user_id)' = get_usage(jobs[j].user_id) )
          => ScoreGE(Priority(j)', Priority(j))]_vars

\* C25 witness: a job scored by a pass has since waited past max_age_sec, and its
\* score now is strictly above the score the pass stored
C25_Witness ==
    \E j \in Queued :
        /\ jobs[j].priority_score /= ZeroScore
        /\ jobs[j].priority_score.den = fairshare_decay_norm + get_usage(jobs[j].user_id)
        /\ time_waiting(jobs[j]) > max_age_sec
        /\ ScoreGT(Priority(j), jobs[j].priority_score)

\* C26: no ledger entry and no ledger total ever decreases.
C26_LedgerNeverDecreases ==
    [][/\ \A u \in DOMAIN usage : u \in DOMAIN usage' /\ usage'[u] >= usage[u]
       /\ get_total_usage' >= get_total_usage]_vars

\* C26 witness: a job has terminated and its user has been charged for the time it
\* ran, and another job is running
C26_Witness ==
    /\ get_total_usage >= 1
    /\ Terminal /= {}
    /\ Running /= {}

\* the add_usage calls for a user that have stored their entry
RECURSIVE ChargedBy(_, _)
ChargedBy(user_id, n) ==
    IF n = 0 THEN 0
    ELSE ChargedBy(user_id, n - 1)
         + (IF calls[n].op = "add" /\ calls[n].pc = "done" /\ calls[n].user_id = user_id
            THEN calls[n].amount * calls[n].gpu_count ELSE 0)

\* C27: the step in which add_usage(user, d, g) stores its entry raises that user's
\* entry by d*g, counting a missing entry as 0, and changes no other entry; the step
\* in which get_usage returns leaves the ledger as it is and returns 0 for a user
\* with no entry.
C27_AddUsageExact ==
    [][\A c \in 1..Len(calls) :
          /\ (calls[c].op = "add" /\ calls[c].pc = "read" /\ calls'[c].pc = "done")
                => /\ DOMAIN usage' = DOMAIN usage \cup {calls[c].user_id}
                   /\ usage'[calls[c].user_id]
                        = (IF calls[c].user_id \in DOMAIN usage
                           THEN usage[calls[c].user_id] ELSE 0)
                          + calls[c].amount * calls[c].gpu_count
                   /\ \A u \in DOMAIN usage \ {calls[c].user_id} : usage'[u] = usage[u]
          /\ (calls[c].op = "get" /\ calls[c].pc = "locked" /\ calls'[c].pc = "done")
                => /\ usage' = usage
                   /\ calls[c].user_id \notin DOMAIN usage => calls'[c].current = 0
                   /\ calls[c].user_id \in DOMAIN usage
                         => calls'[c].current = usage[calls[c].user_id]]_vars

\* C27 witness: a charge with gpu_count 2 has been stored for one user, and get_usage
\* has returned 0 for the other, who still has no entry
C27_Witness ==
    \E c, r \in 1..Len(calls) :
        /\ calls[c].op = "add" /\ calls[c].pc = "done" /\ calls[c].gpu_count = 2
        /\ calls[r].op = "get" /\ calls[r].pc = "done" /\ calls[r].current = 0
        /\ calls[r].user_id \notin DOMAIN usage
        /\ usage[calls[c].user_id] = calls[c].amount * 2

\* C28: at most one call is inside the lock; each user's entry is the sum of the
\* charges of the add_usage calls that have finished, so that none is lost; and a
\* get_usage call returns the sum of the charges finished when it returns.
C28_LedgerSerialized ==
    /\ [](Cardinality({c \in 1..Len(calls) : calls[c].pc \in {"locked", "read"}}) <= 1)
    /\ [](\A u \in LedgerUsers : get_usage(u) = ChargedBy(u, Len(calls)))
    /\ [][\A c \in 1..Len(calls) :
            (calls[c].op = "get" /\ calls[c].pc = "locked" /\ calls'[c].pc = "done")
              => calls'[c].current = ChargedBy(calls[c].user_id, Len(calls))]_vars

\* C28 witness: a charge for a user has been stored; a second call for the same user,
\* inside the lock, has read the entry the first stored; a third call waits for the lock
C28_Witness ==
    \E c, k, w \in 1..Len(calls) :
        /\ calls[c].op = "add" /\ calls[c].pc = "done"
        /\ calls[k].op = "add" /\ calls[k].pc = "read"
        /\ calls[k].user_id = calls[c].user_id
        /\ calls[k].current = calls[c].amount * calls[c].gpu_count
        /\ calls[w].pc = "waiting"

\* the names SlurmConfig gives a factor to
KnownPartitions == {"debug", "normal", "batch"}
KnownQos == {"admin", "premium", "standard", "guest"}

\* the sum of the five weights, in score units
SumWeights ==
    (weight_age + weight_fairshare + weight_job_size + weight_partition + weight_qos)
        \div ScoreUnit

C30_UnhealthyGpuNeverAssigned ==
    [][\A j \in JobIds :
          (nvml /\ jobs[j].assigned_gpu = None /\ jobs'[j].assigned_gpu /= None)
          => LET d == jobs'[j].assigned_gpu + 1
             IN  /\ d \in 1..Len(hw)
                 /\ ~(hw[d].temp /= None /\ hw[d].temp >= OverheatC)
                 /\ GpuTotal - hw[d].used >= jobs[j].vram_required
                 /\ hw[d].used < IdleUsedLimit]_vars

\* C30 witness: a job runs on the second device while the first, idle, is at 85 C
C30_Witness ==
    \E j \in Running :
        /\ jobs[j].assigned_gpu = 1
        /\ hw[1].temp = OverheatC
        /\ hw[1].used = 0

\* C31: with only the synthetic device at most one job is RUNNING; while a job is
\* RUNNING no step makes another job RUNNING; and a job whose vram_required is above
\* the device's 16 GiB stays QUEUED and unassigned.
C31_VirtualDeviceOneJob ==
    /\ [](Cardinality(Running) <= 1)
    /\ [](\A j \in JobIds :
            jobs[j].vram_required > VirtualGpuTotal
              => jobs[j].status = "QUEUED" /\ jobs[j].assigned_gpu = None)
    /\ [][Running /= {}
           => \A j \in JobIds :
                jobs[j].status /= "RUNNING" => jobs'[j].status /= "RUNNING"]_vars

\* C31 witness: the device is idle after a job ended on it, and a pass has picked and
\* scored the only waiting job, which asks for more than 16 GiB, and left it QUEUED
C31_Witness ==
    /\ ~nvml
    /\ Running = {}
    /\ Terminal /= {}
    /\ loop = "sleep"
    /\ \E j \in JobIds :
          /\ Queued = {j}
          /\ jobs[j].vram_required > VirtualGpuTotal
          /\ jobs[j].priority_score /= ZeroScore

\* the place of a status in the list sort_jobs_by_priority returns
GroupOf(status) ==
    CASE status = "RUNNING" -> 1
      [] status = "PENDING" -> 2
      [] status = "COMPLETED" -> 3
      [] OTHER -> 4

\* C32: the list a get_jobs call returns holds each job squeue reported exactly once,
\* unchanged but for its priority_score; RUNNING jobs come first, then PENDING jobs in
\* non-increasing priority_score, then COMPLETED jobs in non-increasing completed_at,
\* then the jobs of any other status.
C32_SortedPermutation ==
    [][engine' /= engine
        => LET r == engine'.result
           IN  /\ Len(r) = Len(squeue)
               /\ \A i \in 1..Len(squeue) :
                     Cardinality({k \in 1..Len(r) : r[k].job_id = squeue[i].job_id}) = 1
               /\ \A k \in 1..Len(r) :
                     [r[k] EXCEPT !.priority_score = None] = squeue[r[k].job_id]
               /\ \A k, l \in 1..Len(r) :
                     k < l
                     => /\ GroupOf(r[k].status) <= GroupOf(r[l].status)
                        /\ (r[k].status = "PENDING" /\ r[l].status = "PENDING")
                              => EngineGE(r[k].priority_score, r[l].priority_score)
                        /\ (r[k].status = "COMPLETED" /\ r[l].status = "COMPLETED")
                              => r[k].completed_at >= r[l].completed_at]_vars

\* C32 witness: a returned list with the RUNNING job first, though it is the job
\* added last, then two PENDING jobs, the later-added one first with the higher score
C32_Witness ==
    /\ Len(engine.result) = 3
    /\ engine.result[1].status = "RUNNING"
    /\ engine.result[1].job_id = 3
    /\ engine.result[2].status = "PENDING"
    /\ engine.result[3].status = "PENDING"
    /\ engine.result[2].job_id > engine.result[3].job_id
    /\ ~EngineGE(engine.result[3].priority_score, engine.result[2].priority_score)

\* C33: every RUNNING job in the store has as assigned_gpu the id of a device of the
\* inventory and as pid the id of a child process started for it.
C33_RunningHasGpuAndPid ==
    \A j \in Running :
        /\ \E m \in 1..Len(list_gpus) : list_gpus[m].gpu_id = jobs[j].assigned_gpu
        /\ jobs[j].pid /= None
        /\ jobs[j].pid \in DOMAIN procs

\* C34: a pass stores on every QUEUED job the score computed from the time and the
\* ledger of that pass, and the job it admits has, by those scores, at least the
\* score of every other QUEUED job, whatever scores earlier passes had stored.
C34_ScoresRecomputedEachPass ==
    [][IsPass
        => \A j \in Queued :
              /\ jobs'[j].priority_score = Priority(j)
              /\ jobs'[j].status = "RUNNING"
                    => \A k \in Queued : ScoreGE(Priority(j), Priority(k))]_vars

\* C34 witness: a pass is due while the scores an earlier pass stored rank job j above
\* job k, and the scores of now, the ledger having been charged since, rank k above j
C34_Witness ==
    /\ loop = "check"
    /\ \E j, k \in Queued :
          /\ jobs[j].priority_score /= ZeroScore
          /\ jobs[k].priority_score /= ZeroScore
          /\ ScoreGT(jobs[j].priority_score, jobs[k].priority_score)
          /\ ScoreGT(Priority(k), Priority(j))
          /\ HasGpu(k)

\* C35: while _pick_next_job is among its candidates the ledger does not change, and
\* when it ranks them every candidate carries a score computed against the ledger as
\* it is then, the job picked having at least the score of every other candidate.
C35_PassUsesOneLedgerSnapshot ==
    /\ [][loop = "scoring" => usage' = usage]_vars
    /\ [][(loop = "scoring" /\ loop' /= "scoring")
           => \A j \in 1..Len(pick.candidates) :
                 LET c == pick.candidates[j]
                 IN  /\ jobs[c].priority_score.den
                          = fairshare_decay_norm + get_usage(jobs[c].user_id)
                     /\ ScoreGE(jobs[PickRanked[1]].priority_score,
                                jobs[c].priority_score)]_vars

\* C35 witness: a pass has scored the first of two candidates while the supervisor
\* of a job of that candidate's user, whose child has exited, waits to charge the
\* ledger
C35_Witness ==
    /\ loop = "scoring"
    /\ Len(pick.candidates) = 2
    /\ pick.k = 1
    /\ \E t \in DOMAIN tasks :
          /\ ~procs[t].alive
          /\ jobs[t].user_id = jobs[pick.candidates[1]].user_id
          /\ now > tasks[t].start_time

\* job k comes before job i by the tie-break rule: equal scores, and k submitted
\* earlier or, submitted at the same time, with the smaller job id
TieBreakBefore(k, i) ==
    /\ PendingScore(k) = PendingScore(i)
    /\ \/ djobs[k].submitted_at < djobs[i].submitted_at
       \/ /\ djobs[k].submitted_at = djobs[i].submitted_at
          /\ djobs[k].job_id < djobs[i].job_id

\* C36: a daemon pass never promotes a job while it leaves PENDING a job that the
\* ordering rule puts before it: one with a higher score, or with the same score and
\* an earlier submitted_at, or with the same score and time and a smaller job id.
C36_TieBreakByAgeThenId ==
    [][IsDaemonPass
        => \A i \in PromotedInStep :
              \A k \in InStatus("PENDING") \ PromotedInStep :
                  /\ PendingScore(i) >= PendingScore(k)
                  /\ ~TieBreakBefore(k, i)]_vars


\* C37: in every reachable state a job's script_path is the path where its script
\* file is: after the submission (to_run), after the admission (running) and after the
\* finalization (complete or fail), for terminal jobs as for the others.
C37_ScriptPathFollowsFile ==
    \A j \in JobIds : \A p \in ScriptPaths(j) : jobs[j].script_path = p


\* C38: in every reachable state no two RUNNING jobs have the same assigned_gpu: a GPU
\* given to a job is given to no other job until the first has left RUNNING, whatever
\* memory use the inventory reports for it.
C38_NoSharedGpu ==
    \A j, k \in Running : j /= k => jobs[j].assigned_gpu /= jobs[k].assigned_gpu


\* C39: each job is admitted at most once and charged exactly once. A job that has
\* left QUEUED is never QUEUED again; a child process and a supervisor task are created
\* only for a job that is QUEUED and has had none before; the ledger changes only in
\* the step where the supervisor of a job not charged yet ends, by that job's run
\* time; a job whose supervisor is still pending has not been charged, a terminal job
\* has been charged and has no supervisor left, and a job never admitted has no charge.
C39_AdmittedOnceChargedOnce ==
    /\ [][\A j \in JobIds :
             /\ jobs[j].status /= "QUEUED" => jobs'[j].status /= "QUEUED"
             /\ (j \in DOMAIN procs' /\ j \notin DOMAIN procs)
                => (jobs[j].status = "QUEUED" /\ j \notin DOMAIN acct)
             /\ (j \in DOMAIN tasks' /\ (j \notin DOMAIN tasks \/ tasks'[j] /= tasks[j]))
                => (jobs[j].status = "QUEUED" /\ j \notin DOMAIN acct)]_vars
    /\ [][usage' /= usage
             => \E j \in DOMAIN tasks :
                   /\ j \notin DOMAIN tasks'
                   /\ acct[j].end = None
                   /\ acct'[j].end /= None
                   /\ usage' = add_usage(jobs[j].user_id, now - acct[j].start, 1)]_vars
    /\ [](\A j \in JobIds :
             /\ j \in DOMAIN tasks => (j \in DOMAIN acct /\ acct[j].end = None)
             /\ j \in Terminal
                => (j \in DOMAIN acct /\ acct[j].end /= None /\ j \notin DOMAIN tasks)
             /\ j \notin DOMAIN acct => (j \notin DOMAIN tasks /\ j \notin DOMAIN procs))

\* C39 witness: a job finalized after running for some time, its user charged that
\* time and nothing else, while a second job of the same user runs under its own
\* supervisor, not charged yet
C39_Witness ==
    \E j \in Terminal, k \in Running :
        /\ jobs[j].user_id = jobs[k].user_id
        /\ acct[j].end > acct[j].start
        /\ k \in DOMAIN tasks
        /\ acct[k].end = None
        /\ get_usage(jobs[j].user_id) = acct[j].end - acct[j].start


\* the VRAM-hours of the jobs 1..n of the listing that are COMPLETED with both times,
\* for one user
RECURSIVE CompletedUsage(_, _)
CompletedUsage(user, n) ==
    IF n = 0 THEN 0
    ELSE CompletedUsage(user, n - 1)
         + (IF /\ squeue[n].user = user
               /\ squeue[n].status = "COMPLETED"
               /\ squeue[n].started_at /= None
               /\ squeue[n].completed_at /= None
               /\ n \in DOMAIN engine.recorded
            THEN squeue[n].vram_gb * (squeue[n].completed_at - squeue[n].started_at)
            ELSE 0)

\* C40: over the calls of sort_jobs_by_priority in one process, no job is recorded in
\* the usage tracker more than once and no PENDING or RUNNING job is recorded; a call
\* leaves every COMPLETED job that has started_at and completed_at recorded; and each
\* user's usage is the sum of the VRAM-hours of that user's recorded jobs, each once.
C40_CompletedRecordedOnce ==
    /\ [](\A j \in DOMAIN engine.recorded :
             /\ engine.recorded[j] = 1
             /\ squeue[j].status = "COMPLETED")
    /\ [](\A j \in 1..Len(squeue) :
             tracker_get_usage(engine.usage_data, squeue[j].user)
                = CompletedUsage(squeue[j].user, Len(squeue)))
    /\ [][engine' /= engine
             => \A j \in 1..Len(squeue) :
                   (/\ squeue[j].status = "COMPLETED"
                    /\ squeue[j].started_at /= None
                    /\ squeue[j].completed_at /= None)
                   => (j \in DOMAIN engine'.recorded /\ engine'.recorded[j] = 1)]_vars

=============================================================================
